---- MODULE Spec2Model ----
(***************************************************************************)
(* A model of the distributed LLM council: the node registry              *)
(* (backend/config.py), the health-aware router and query dispatcher      *)
(* (backend/distributed.py), the code-council pipeline                     *)
(* (backend/code_council.py) and the generate_code endpoint that drives   *)
(* it (backend/main.py).                                                   *)
(*                                                                         *)
(* Representation.  A model name is the sequence of its colon-separated   *)
(* segments (<<"a","1">> is "a:1"), so that model.split(':')[0] is its    *)
(* first segment.  A text is the sequence of its lines.  Python's None is *)
(* the record None; an absent or empty string is the empty sequence.      *)
(***************************************************************************)
EXTENDS Integers, Sequences, FiniteSets, TLC

(***************************************************************************)
(* Bounds of the model and constants of the program.                      *)
(***************************************************************************)
MaxIterations == 2

MaxTasks == 2
\* how many check_all_nodes_health calls are made
MaxBatches == 2
\* how many nodes the registry is let grow to
MaxNodes == 2

MAX_RETRIES == 2

DEFAULT_PORT == 8080

None == [kind |-> "None"]

NoUrl == ""

NoModel == <<>>

NoScore == -1

(***************************************************************************)
(* Small helpers on sequences.                                             *)
(***************************************************************************)
Range(s) == {s[i] : i \in 1..Len(s)}

RECURSIVE Flatten(_)
Flatten(ss) == IF ss = <<>> THEN <<>> ELSE Head(ss) \o Flatten(Tail(ss))

RECURSIVE SelectIdx(_, _, _)
\* the subsequence of s at the indices of keep, in order (from index i on)
SelectIdx(s, keep, i) ==
    IF i > Len(s) THEN <<>>
    ELSE (IF i \in keep THEN <<s[i]>> ELSE <<>>) \o SelectIdx(s, keep, i + 1)

Take(s, n) == SubSeq(s, 1, IF Len(s) < n THEN Len(s) ELSE n)

Min(S) == CHOOSE x \in S : \A y \in S : x <= y

(***************************************************************************)
(* config.py: LLMNode and the registry COUNCIL_NODES.                      *)
(***************************************************************************)
\* api_key: Optional[str] = None
NoKey == ""

LLMNode(name, host, models, is_chairman, chairman_model, enabled) ==
    [name |-> name, host |-> host, port |-> DEFAULT_PORT, models |-> models,
     is_chairman |-> is_chairman, chairman_model |-> chairman_model,
     enabled |-> enabled, api_key |-> NoKey]

Url(node) == "http://" \o node.host \o ":" \o ToString(node.port)

\* model names
MA == <<"a">>
MB == <<"b">>
MA1 == <<"a", "1">>
MA2 == <<"a", "2">>

\* The registries a run is started on.
TwoTags ==
    << LLMNode("n1", "h1", <<MA1>>, FALSE, NoModel, TRUE),
       LLMNode("n2", "h2", <<MA2>>, TRUE, MA2, TRUE) >>

SameModelTwice ==
    << LLMNode("n1", "h1", <<MA>>, FALSE, NoModel, TRUE),
       LLMNode("n2", "h2", <<MA>>, FALSE, NoModel, TRUE) >>

OneEnabled ==
    << LLMNode("n1", "h1", <<MA>>, TRUE, MA, FALSE),
       LLMNode("n2", "h2", <<MB>>, FALSE, NoModel, TRUE) >>

NoneEnabled == << LLMNode("n1", "h1", <<MA>>, TRUE, MA, FALSE) >>

VARIABLES
    nodes,               \* config.COUNCIL_NODES
    node_health,         \* DistributedLLMClient._node_health
    pc,                  \* where run_code_council stands
    max_iterations,      \* its argument
    iteration_num,       \* its loop variable
    current_submissions, \* its local
    reviews,             \* the reviews of the round being refined
    refined_submissions, \* the refinements collected so far in the round
    iterations,          \* the iteration log
    tests,               \* the generated tests
    final_result,        \* what synthesize_final_code returned
    result,              \* what run_code_council returned
    conversation,        \* the stored conversation's type, or "missing"
    http,                \* the generate_code endpoint: idle/running/returned/raised
    messages,            \* the stored conversation's messages (their roles)
    trace,               \* the passes performed, in order
    sent,                \* the chat requests dispatched
    tasks,               \* the query_model calls in progress, attempt by attempt
    fanout,              \* the query_models_parallel call in progress
    batches,             \* the check_all_nodes_health calls, probe by probe
    streak,              \* per node, the failed probes since its last answered probe
    routed,              \* the last find_node_for_model call and what it returned
    registry_op,         \* the last add_node/update_node/remove_node call and its outcome
    arbiter,             \* what the last get_chairman_config call returned
    applied,             \* the last parser or cleaner call: its input and output
    round,               \* where one review-and-refine round stands, request by request
    refines,             \* the refinement calls of that round, attempt by attempt
    http_clients,        \* the HTTP clients cached per node name: address and key
    dispatched           \* the last request sent through a cached client

vars == <<nodes, node_health, pc, max_iterations, iteration_num,
          current_submissions, reviews, refined_submissions, iterations, tests,
          final_result, result, conversation, http, messages, trace, sent, tasks,
          fanout, batches, streak, routed, registry_op, arbiter, applied,
          round, refines, http_clients, dispatched>>

\* the state of the dispatcher's calls, which a run of the pipeline leaves alone
\* the state of the health prober and of direct router calls
healthvars == <<batches, streak, routed>>

\* the state of direct registry calls
registryvars == <<registry_op, arbiter>>

\* the state of one round followed request by request
roundvars == <<round, refines>>

\* the client cache followed request by request
cachevars == <<http_clients, dispatched>>

clientvars == <<tasks, fanout, healthvars, registryvars, applied, roundvars,
                cachevars>>

get_enabled_nodes == SelectSeq(nodes, LAMBDA n : n.enabled)

ModelEntries(node) ==
    [i \in 1..Len(node.models) |->
        [model |-> node.models[i], node_name |-> node.name, node_url |-> Url(node)]]

get_all_council_models ==
    Flatten([i \in 1..Len(get_enabled_nodes) |-> ModelEntries(get_enabled_nodes[i])])

\* the first model of the first enabled node, flagged or not
get_first_model ==
    LET models == get_all_council_models
    IN  IF models # <<>> THEN models[1] ELSE None

get_chairman_config ==
    LET en == get_enabled_nodes
        flagged == {i \in 1..Len(en) : en[i].is_chairman /\ en[i].chairman_model # NoModel}
        models == get_all_council_models
    IN  IF flagged # {}
        THEN [model |-> en[Min(flagged)].chairman_model,
              node_name |-> en[Min(flagged)].name,
              node_url |-> Url(en[Min(flagged)])]
        ELSE IF models # <<>> THEN models[1] ELSE None

(***************************************************************************)
(* distributed.py: node health and the router.                             *)
(***************************************************************************)
NodeHealth(node_name) ==
    [node_name |-> node_name, is_healthy |-> TRUE, last_error |-> "",
     consecutive_failures |-> 0, available_models |-> <<>>, oid |-> 0]

\* the record a first failed probe of the node leaves (check_node_health)
FailedProbe(node_name) ==
    [NodeHealth(node_name) EXCEPT !.is_healthy = FALSE, !.last_error = "error",
                                  !.consecutive_failures = 1]

\* the health records are not consulted
AnyHealth(node) == TRUE

\* health is None or health.is_healthy
HealthyOrUnchecked(node) ==
    node.name \notin DOMAIN node_health \/ node_health[node.name].is_healthy

get_healthy_nodes == SelectSeq(get_enabled_nodes, HealthyOrUnchecked)

Base(model) == IF model = <<>> THEN "" ELSE model[1]

ConfiguredFor(node, model) ==
    \/ model \in Range(node.models)
    \/ Base(model) \in {Base(m) : m \in Range(node.models)}

AdvertisedFor(node, model) ==
    /\ node.name \in DOMAIN node_health
    /\ Base(model) \in {Base(m) : m \in Range(node_health[node.name].available_models)}

\* the advertised models are tried before the configured ones
find_node_advertised_first(model) ==
    LET en == get_enabled_nodes
        first == {i \in 1..Len(en) : ConfiguredFor(en[i], model) /\ HealthyOrUnchecked(en[i])}
        hn == get_healthy_nodes
        second == {i \in 1..Len(hn) : AdvertisedFor(hn[i], model)}
    IN  IF second # {} THEN hn[Min(second)]
        ELSE IF first # {} THEN en[Min(first)]
        ELSE None

find_node_for_model(model) ==
    LET en == get_enabled_nodes
        first == {i \in 1..Len(en) : ConfiguredFor(en[i], model) /\ HealthyOrUnchecked(en[i])}
        hn == get_healthy_nodes
        second == {i \in 1..Len(hn) : AdvertisedFor(hn[i], model)}
    IN  IF first # {} THEN en[Min(first)]
        ELSE IF second # {} THEN hn[Min(second)]
        ELSE None

(***************************************************************************)
(* distributed.py: the query dispatcher, request by request.  reply is     *)
(* what the retry loop ends with: None when every attempt failed, else the *)
(* content of the first successful attempt.                                *)
(***************************************************************************)
Normalized(reply, node_name, model) ==
    IF reply = None THEN None
    ELSE [content |-> reply.content, node |-> node_name, model |-> model]

\* [result: the value returned, to: the address chatted with (NoUrl: no request)]
query_model(model, node_url, reply) ==
    IF node_url # NoUrl
    THEN [result |-> Normalized(reply, node_url, model), to |-> node_url]
    ELSE LET r == find_node_for_model(model)
         IN  IF r = None
             THEN [result |-> None, to |-> NoUrl]
             ELSE [result |-> Normalized(reply, r.name, model), to |-> Url(r)]

RECURSIVE DictSet(_, _, _)
\* a Python dict as a sequence of [key, value] in insertion order: d[key] = value
DictSet(d, key, value) ==
    IF d = <<>> THEN << [key |-> key, value |-> value] >>
    ELSE IF Head(d).key = key THEN << [key |-> key, value |-> value] >> \o Tail(d)
    ELSE << Head(d) >> \o DictSet(Tail(d), key, value)

RECURSIVE DictOf(_, _)
DictOf(d, pairs) ==
    IF pairs = <<>> THEN d
    ELSE DictOf(DictSet(d, Head(pairs).key, Head(pairs).value), Tail(pairs))

\* the model -> response dict of a fan-out of models_config with replies
query_models_parallel(models_config, replies) ==
    DictOf(<<>>, [i \in 1..Len(models_config) |->
        [key |-> models_config[i].model,
         value |-> query_model(models_config[i].model, models_config[i].node_url,
                               replies[i]).result]])

\* the requests such a fan-out dispatches, each with whether it was answered
FanOutRequests(stage, models_config, replies) ==
    { [stage |-> stage, model |-> models_config[i].model,
       to |-> query_model(models_config[i].model, models_config[i].node_url,
                          replies[i]).to,
       answered |-> replies[i] # None] : i \in 1..Len(models_config) }

(***************************************************************************)
(* code_council.py: cleaning a reply of its markdown fence.  A text is the *)
(* sequence of its lines; "" is a blank line, FENCE a line of three       *)
(* backquotes and FENCE_PY three backquotes followed by a language word.   *)
(***************************************************************************)
FENCE == "[fence]"

FENCE_PY == "[fence]py"

RECURSIVE LStrip(_)
LStrip(text) ==
    IF text # <<>> /\ Head(text) = "" THEN LStrip(Tail(text)) ELSE text

RECURSIVE RStrip(_)
RStrip(text) ==
    IF text # <<>> /\ text[Len(text)] = ""
    THEN RStrip(SubSeq(text, 1, Len(text) - 1)) ELSE text

\* str.strip()
Strip(text) == RStrip(LStrip(text))

\* re.sub of an opening fence (three backquotes, word characters, newline) at
\* the start of any line: a fence line that a newline follows goes
SubOpeningFence(text) ==
    SelectIdx(text, {i \in 1..Len(text) :
                        ~(text[i] \in {FENCE, FENCE_PY} /\ i < Len(text))}, 1)

\* re.sub of a closing fence (newline, three backquotes) at the end of any
\* line: a bare fence line that a newline precedes goes
SubClosingFence(text) ==
    SelectIdx(text, {i \in 1..Len(text) : ~(text[i] = FENCE /\ i > 1)}, 1)

StripFences(content) == Strip(SubClosingFence(SubOpeningFence(Strip(content))))

(***************************************************************************)
(* code_council.py: parse_structured_review.  A review text is a sequence  *)
(* of lines, each a record:                                                *)
(*   [k |-> "hdr", l |-> "A"]              Code Submission A:              *)
(*   [k |-> "cat", c |-> "bugs", t |-> x]  - Bugs: x                       *)
(*   [k |-> "score", n |-> 7]              - Overall Score: 7              *)
(*   [k |-> "marker"]                      FINAL RANKING:                  *)
(*   [k |-> "rank", l |-> "A"]             1. Code Submission A            *)
(*   [k |-> "prose"]                       any other line                  *)
(***************************************************************************)
LABELS == <<"A", "B", "C", "D", "E", "F">>

CATEGORIES == <<"bugs", "style", "performance", "security", "best practices">>

\* labels = [chr(65 + i) for i in range(len(code_submissions))]
\* every submission is labelled A
SameLabelFor(code_submissions) == [i \in 1..Len(code_submissions) |-> "A"]

LabelsFor(code_submissions) == SubSeq(LABELS, 1, Len(code_submissions))

\* the lines that hold "Code Submission X" for some capital X
MentionsSubmission(line) == line.k \in {"hdr", "rank"}

\* the section of label: what follows its first header up to the next mention
\* of a submission, the ranking marker or the end of the text
SectionOf(review_text, label) ==
    LET hdrs == {i \in 1..Len(review_text) :
                    review_text[i].k = "hdr" /\ review_text[i].l = label}
        start == Min(hdrs)
        stops == {j \in (start + 1)..Len(review_text) :
                    MentionsSubmission(review_text[j]) \/ review_text[j].k = "marker"}
        stop == IF stops = {} THEN Len(review_text) + 1 ELSE Min(stops)
    IN  SubSeq(review_text, start + 1, stop - 1)

HasSection(review_text, label) ==
    \E i \in 1..Len(review_text) : review_text[i].k = "hdr" /\ review_text[i].l = label

CategoriesOf(section) ==
    LET found == {c \in Range(CATEGORIES) :
                     \E i \in 1..Len(section) : section[i].k = "cat" /\ section[i].c = c}
    IN  [c \in found |->
            section[Min({i \in 1..Len(section) :
                            section[i].k = "cat" /\ section[i].c = c})].t]

\* int() refuses a string of more than this many digits (ValueError)
MAX_STR_DIGITS == 4300

ValueError == [raised |-> "ValueError"]

\* the number of digits written on a score line; a line without the field
\* is written with one or two digits
DigitsOf(line) == IF "digits" \in DOMAIN line THEN line.digits ELSE 1

\* int(score_match.group(1)) raises
ScoreRaises(section) ==
    LET scores == {i \in 1..Len(section) : section[i].k = "score"}
    IN  scores # {} /\ DigitsOf(section[Min(scores)]) > MAX_STR_DIGITS

\* int(score_match.group(1)) if score_match else None
ScoreOf(section) ==
    LET scores == {i \in 1..Len(section) : section[i].k = "score"}
    IN  IF scores = {} THEN NoScore ELSE section[Min(scores)].n

RankingOf(review_text) ==
    LET markers == {i \in 1..Len(review_text) : review_text[i].k = "marker"}
        first == Min(markers)
        later == {j \in markers : j > first}
        end == IF later = {} THEN Len(review_text) ELSE Min(later) - 1
        section == SubSeq(review_text, first + 1, end)
        picked == SelectSeq(section, MentionsSubmission)
    IN  IF markers = {} THEN <<>> ELSE [i \in 1..Len(picked) |-> picked[i].l]

\* parsed["submissions"] keeps its keys in the order of labels
parse_structured_review(review_text, labels) ==
    LET present == {i \in 1..Len(labels) : HasSection(review_text, labels[i])}
    IN  IF \E i \in present : ScoreRaises(SectionOf(review_text, labels[i]))
        THEN ValueError
        ELSE
        [submissions |->
            [l \in {labels[i] : i \in present} |->
                [categories |-> CategoriesOf(SectionOf(review_text, l)),
                 score |-> ScoreOf(SectionOf(review_text, l)),
                 full_text |-> SectionOf(review_text, l)]],
         order |-> SelectIdx(labels, present, 1),
         ranking |-> RankingOf(review_text)]

(***************************************************************************)
(* What the nodes can answer.  A reply is None (every attempt failed) or   *)
(* [content |-> text].                                                     *)
(***************************************************************************)
Reply(text) == [content |-> text]

GenerationReplies == {None, Reply(<<FENCE_PY, "x", FENCE>>)}

RefinementReplies == {None, Reply(<<FENCE, "z", FENCE>>)}

TestReplies == {None, Reply(<<FENCE_PY, "t", FENCE>>)}

\* a review of A and B with a ranking
ReviewBoth ==
    << [k |-> "hdr", l |-> "A"], [k |-> "cat", c |-> "bugs", t |-> "bug in A"],
       [k |-> "score", n |-> 7],
       [k |-> "hdr", l |-> "B"], [k |-> "cat", c |-> "style", t |-> "style of B"],
       [k |-> "marker"], [k |-> "rank", l |-> "B"], [k |-> "rank", l |-> "A"] >>

ReviewReplies == {None, Reply(ReviewBoth)}

FINAL_CODE == "FINAL CODE:"

FINAL_TESTS == "FINAL TESTS:"

ArbiterReplies ==
    {None,
     Reply(<<FINAL_CODE, FENCE_PY, "s", FENCE, FINAL_TESTS, "u">>),
     Reply(<<"s">>)}

(***************************************************************************)
(* code_council.py: the stages.                                            *)
(***************************************************************************)
Answered(responses) == SelectSeq(responses, LAMBDA e : e.value # None)

\* the submissions generate_initial_code builds from the fan-out's responses
generate_initial_code(responses) ==
    [i \in 1..Len(Answered(responses)) |->
        [model |-> Answered(responses)[i].key,
         code |-> StripFences(Answered(responses)[i].value.content),
         node |-> Answered(responses)[i].value.node,
         iteration |-> 0]]

\* the pair review_code_structured returns
review_code_structured(code_submissions, responses) ==
    LET labels == LabelsFor(code_submissions)
    IN  [reviews |->
            [i \in 1..Len(Answered(responses)) |->
                [model |-> Answered(responses)[i].key,
                 review_text |-> Answered(responses)[i].value.content,
                 parsed_review |->
                    parse_structured_review(Answered(responses)[i].value.content, labels),
                 node |-> Answered(responses)[i].value.node]],
         label_to_model |->
            [l \in Range(labels) |->
                code_submissions[CHOOSE i \in 1..Len(labels) : labels[i] = l].model]]

\* refine_code's feedback_summary: of each review, the first parsed submission
FeedbackOf(review) ==
    LET parsed == review.parsed_review
    IN  IF parsed.order = <<>> THEN <<>>
        ELSE << [reviewer |-> review.model,
                 categories |-> parsed.submissions[parsed.order[1]].categories,
                 score |-> parsed.submissions[parsed.order[1]].score] >>

feedback_summary(code_submission, revs) ==
    Flatten([i \in 1..Len(revs) |-> FeedbackOf(revs[i])])

\* the feedback the refinement prompt embeds
PromptFeedback(code_submission, revs) == Take(feedback_summary(code_submission, revs), 3)

\* a refine_code whose failure path returns the submission without its code
refine_code_blank(code_submission, revs, iteration, reply) ==
    LET response == query_model(code_submission.model, NoUrl, reply).result
    IN  IF response = None THEN [code_submission EXCEPT !.code = <<>>]
        ELSE [code_submission EXCEPT !.code = StripFences(response.content),
                                     !.iteration = iteration]

\* the submission refine_code returns
refine_code(code_submission, revs, iteration, reply) ==
    LET response == query_model(code_submission.model, NoUrl, reply).result
    IN  IF response = None THEN code_submission
        ELSE [code_submission EXCEPT !.code = StripFences(response.content),
                                     !.iteration = iteration]

\* the request refine_code dispatches, if the router finds a node
RefineRequests(code_submission, revs, iteration, reply) ==
    LET q == query_model(code_submission.model, NoUrl, reply)
    IN  IF q.to = NoUrl THEN {}
        ELSE { [stage |-> "refinement", model |-> code_submission.model, to |-> q.to,
                answered |-> reply # None,
                iteration |-> iteration, code |-> code_submission.code,
                author |-> code_submission.node,
                feedback |-> PromptFeedback(code_submission, revs)] }

generate_tests(responses) ==
    [i \in 1..Len(Answered(responses)) |->
        [model |-> Answered(responses)[i].key,
         test_code |-> StripFences(Answered(responses)[i].value.content),
         node |-> Answered(responses)[i].value.node]]

RECURSIVE Split(_, _)
\* str.split(marker) of a text whose markers stand on lines of their own
Split(text, marker) ==
    LET at == {i \in 1..Len(text) : text[i] = marker}
    IN  IF at = {} THEN << text >>
        ELSE << SubSeq(text, 1, Min(at) - 1) >>
             \o Split(SubSeq(text, Min(at) + 1, Len(text)), marker)

CHAIRMAN_MODEL ==
    IF get_chairman_config = None THEN <<"mistral">> ELSE get_chairman_config.model

\* what query_chairman returns, and the request it dispatches
query_chairman(reply) ==
    IF get_chairman_config = None THEN [result |-> None, to |-> NoUrl]
    ELSE query_model(get_chairman_config.model, get_chairman_config.node_url, reply)

\* the test marker is not looked for
ParseSynthesisCodeOnly(synthesis_text) ==
    LET parts == Split(synthesis_text, FINAL_CODE)
    IN  IF Len(parts) > 1
        THEN [code |-> Strip(parts[2]), tests |-> <<>>]
        ELSE [code |-> <<>>, tests |-> <<>>]

ParseSynthesis(synthesis_text) ==
    LET parts == Split(synthesis_text, FINAL_CODE)
        rest == parts[2]
    IN  IF Len(parts) > 1
        THEN IF Len(Split(rest, FINAL_TESTS)) > 1
             THEN [code |-> Strip(Split(rest, FINAL_TESTS)[1]),
                   tests |-> Strip(Split(rest, FINAL_TESTS)[2])]
             ELSE [code |-> Strip(rest), tests |-> <<>>]
        ELSE [code |-> <<>>, tests |-> <<>>]

\* without an arbiter reply nothing is returned as final code and tests
synthesize_without_fallback(code_submissions, test_results, response) ==
    IF response = None
    THEN [code |-> <<>>, tests |-> <<>>, model |-> CHAIRMAN_MODEL, node |-> "error"]
    ELSE [code |-> StripFences(ParseSynthesis(response.content).code),
          tests |-> StripFences(ParseSynthesis(response.content).tests),
          model |-> response.model, node |-> response.node]

synthesize_final_code(code_submissions, test_results, response) ==
    IF response = None
    THEN [code |-> IF code_submissions # <<>> THEN code_submissions[1].code ELSE <<>>,
          tests |-> IF test_results # <<>> THEN test_results[1].test_code ELSE <<>>,
          model |-> CHAIRMAN_MODEL, node |-> "error"]
    ELSE [code |-> StripFences(ParseSynthesis(response.content).code),
          tests |-> StripFences(ParseSynthesis(response.content).tests),
          model |-> response.model, node |-> response.node]

(***************************************************************************)
(* The state a request finds: a registry, the health records earlier       *)
(* probes left (none, or a failed probe of one node), a stored             *)
(* conversation (or none), no run in progress.                             *)
(***************************************************************************)
\* a query_model call that has not been made yet
IdleTask ==
    [pc |-> "idle", model |-> NoModel, node_url |-> NoUrl, node_name |-> "",
     to |-> NoUrl, attempt |-> 0, events |-> <<>>, result |-> None]

Clusters ==
    { [nodes |-> TwoTags, node_health |-> << >>],
      [nodes |-> SameModelTwice, node_health |-> << >>],
      [nodes |-> SameModelTwice, node_health |-> [n \in {"n1"} |-> FailedProbe(n)]],
      [nodes |-> OneEnabled, node_health |-> << >>],
      [nodes |-> OneEnabled, node_health |-> [n \in {"n2"} |-> FailedProbe(n)]],
      [nodes |-> NoneEnabled, node_health |-> << >>] }

\* a check_all_nodes_health call that has not been made yet
IdleBatch == [pc |-> "idle", probes |-> <<>>, result |-> <<>>]

\* no round in progress
IdleRound == [pc |-> "idle", num |-> 0, submissions |-> <<>>, i |-> 0]

\* no query_models_parallel call in progress
IdleFanOut == [pc |-> "idle", models_config |-> <<>>, responses |-> <<>>]

InitWith(clusters) ==
    /\ \E c \in clusters : nodes = c.nodes /\ node_health = c.node_health
    /\ pc = "INIT"
    /\ max_iterations = 0
    /\ iteration_num = 0
    /\ current_submissions = <<>>
    /\ reviews = <<>>
    /\ refined_submissions = <<>>
    /\ iterations = <<>>
    /\ tests = <<>>
    /\ final_result = None
    /\ result = None
    /\ conversation \in {"missing", "chat", "code"}
    /\ http = "idle"
    /\ messages = <<>>
    /\ trace = <<>>
    /\ sent = {}
    /\ tasks = [t \in 1..MaxTasks |-> IdleTask]
    /\ fanout = IdleFanOut
    /\ batches = [b \in 1..MaxBatches |-> IdleBatch]
    /\ streak = [n \in {nodes[i].name : i \in 1..Len(nodes)} |->
                    IF n \in DOMAIN node_health
                    THEN node_health[n].consecutive_failures ELSE 0]
    /\ routed = None
    /\ registry_op = None
    /\ arbiter = None
    /\ applied = None
    /\ round = IdleRound
    /\ refines = [i \in 1..MaxTasks |-> IdleTask]
    /\ http_clients = << >>
    /\ dispatched = None

Init == InitWith(Clusters)

runvars == <<pc, max_iterations, iteration_num, current_submissions, reviews,
             refined_submissions, iterations, tests, final_result, result,
             conversation, http, messages, trace, sent>>

\* what the dispatcher, the prober and the router leave alone
restvars == <<runvars, cachevars, registryvars, applied, roundvars>>

Running == http = "running" /\ pc \notin {"DONE", "ALL_FAILED", "RAISED"}

\* generate_code: the conversation is missing or is not a code conversation
GenerateCodeRejected ==
    /\ http = "idle"
    /\ conversation # "code"
    /\ http' = IF conversation = "missing" THEN "404" ELSE "400"
    /\ UNCHANGED <<nodes, node_health, clientvars, pc, max_iterations, iteration_num,
                   current_submissions, reviews, refined_submissions, iterations,
                   tests, final_result, result, conversation, messages, trace, sent>>

\* the loop bound written range(1, max_iterations)
InLoopExclusive == iteration_num < max_iterations

\* for iteration_num in range(1, max_iterations + 1)
InLoop == iteration_num <= max_iterations

\* the check for an empty generation left out
AllFailedUnchecked(code_submissions) == FALSE

\* if not code_submissions
AllFailed(code_submissions) == code_submissions = <<>>

\* the result run_code_council returns when every model failed
ErrorResult ==
    [error |-> "All models failed to generate code", iterations |-> <<>>,
     final_code |-> None, tests |-> <<>>]

\* a result without its final_tests key, as the all-failed result is
RunResultWithoutFinalTests(log, final, test_results) ==
    [iterations |-> log, final_code |-> final.code, tests |-> test_results,
     metadata |-> [total_iterations |-> Len(log)]]

\* the result run_code_council returns after synthesis
RunResult(log, final, test_results) ==
    [iterations |-> log,
     final_code |-> final.code,
     final_tests |-> final.tests,
     tests |-> test_results,
     metadata |-> [total_iterations |-> Len(log)]]

\* generate_code up to run_code_council's first stage: the specification is
\* stored, the generation prompt fans out, and the run either fails or opens
\* the iteration log
Generate ==
    /\ http = "idle"
    /\ conversation = "code"
    /\ pc = "INIT"
    /\ \E m \in 0..MaxIterations :
       \E replies \in [1..Len(get_all_council_models) -> GenerationReplies] :
         LET code_submissions ==
                generate_initial_code(query_models_parallel(get_all_council_models, replies))
         IN  /\ max_iterations' = m
             /\ sent' = sent \cup FanOutRequests("generation", get_all_council_models, replies)
             /\ IF AllFailed(code_submissions)
                THEN /\ result' = ErrorResult
                     /\ pc' = "ALL_FAILED"
                     /\ UNCHANGED <<iterations, current_submissions, iteration_num>>
                ELSE /\ iterations' = << [iteration |-> 0,
                                          code_submissions |-> code_submissions,
                                          reviews |-> <<>>] >>
                     /\ current_submissions' = code_submissions
                     /\ iteration_num' = 1
                     /\ pc' = "GENERATED"
                     /\ UNCHANGED result
    /\ http' = "running"
    /\ messages' = Append(messages, "user")
    /\ trace' = Append(trace, "generation")
    /\ UNCHANGED <<nodes, node_health, clientvars, reviews, refined_submissions, tests,
                   final_result, conversation>>

\* iterations[-1]["reviews"] = reviews; iterations[-1]["label_to_model"] = ...
StoreReviews(log, rv) ==
    [log EXCEPT ![Len(log)] =
        [iteration |-> log[Len(log)].iteration,
         code_submissions |-> log[Len(log)].code_submissions,
         reviews |-> rv.reviews,
         label_to_model |-> rv.label_to_model]]

\* a review pass: the one that opens a round of the loop, or the final one
Review ==
    /\ Running
    /\ pc \in {"GENERATED", "REFINED"}
    /\ \E replies \in [1..Len(get_all_council_models) -> ReviewReplies] :
         LET rv == review_code_structured(current_submissions,
                       query_models_parallel(get_all_council_models, replies))
         IN  /\ reviews' = rv.reviews
             /\ iterations' = StoreReviews(iterations, rv)
             /\ sent' = sent \cup FanOutRequests("review", get_all_council_models, replies)
    /\ pc' = IF InLoop THEN "REVIEWED" ELSE "FINAL_REVIEWED"
    /\ trace' = Append(trace, "review")
    /\ UNCHANGED <<nodes, node_health, clientvars, max_iterations, iteration_num,
                   current_submissions, refined_submissions, tests, final_result,
                   result, conversation, http, messages>>

\* one turn of "for submission in current_submissions": the next submission
\* is refined; after the last one the round's snapshot is appended
Refine ==
    /\ Running
    /\ pc = "REVIEWED"
    /\ Len(refined_submissions) < Len(current_submissions)
    /\ \E reply \in RefinementReplies :
         LET submission == current_submissions[Len(refined_submissions) + 1]
             refined == refine_code(submission, reviews, iteration_num, reply)
             all == Append(refined_submissions, refined)
         IN  /\ sent' = sent \cup RefineRequests(submission, reviews, iteration_num, reply)
             /\ IF Len(all) = Len(current_submissions)
                THEN /\ current_submissions' = all
                     /\ refined_submissions' = <<>>
                     /\ iterations' = Append(iterations,
                            [iteration |-> iteration_num, code_submissions |-> all,
                             reviews |-> <<>>])
                     /\ iteration_num' = iteration_num + 1
                     /\ pc' = "REFINED"
                ELSE /\ refined_submissions' = all
                     /\ UNCHANGED <<current_submissions, iterations, iteration_num, pc>>
    /\ trace' = IF refined_submissions = <<>> THEN Append(trace, "refinement") ELSE trace
    /\ UNCHANGED <<nodes, node_health, clientvars, max_iterations, reviews, tests,
                   final_result, result, conversation, http, messages>>

\* the last submission is advanced
LastCode(submissions) == submissions[Len(submissions)].code

\* best_code = current_submissions[0]["code"]
BestCode(submissions) == submissions[1].code

\* the test requests of one pass: each carries the code under test
TestRequests(best_code, models_config, replies) ==
    { [stage |-> "test_generation", model |-> models_config[i].model,
       to |-> query_model(models_config[i].model, models_config[i].node_url,
                          replies[i]).to,
       answered |-> replies[i] # None,
       code |-> best_code] : i \in 1..Len(models_config) }

\* best_code = current_submissions[0]["code"]; tests = await generate_tests(...)
GenerateTests ==
    /\ Running
    /\ pc = "FINAL_REVIEWED"
    /\ IF current_submissions = <<>>
       THEN /\ pc' = "RAISED"
            /\ UNCHANGED <<tests, sent, trace>>
       ELSE /\ \E replies \in [1..Len(get_all_council_models) -> TestReplies] :
                 /\ tests' = generate_tests(
                                 query_models_parallel(get_all_council_models, replies))
                 /\ sent' = sent \cup TestRequests(BestCode(current_submissions),
                                                   get_all_council_models, replies)
            /\ pc' = "TESTS_GENERATED"
            /\ trace' = Append(trace, "test_generation")
    /\ UNCHANGED <<nodes, node_health, clientvars, max_iterations, iteration_num,
                   current_submissions, reviews, refined_submissions, iterations,
                   final_result, result, conversation, http, messages>>

\* final_result = await synthesize_final_code(...)
Synthesize ==
    /\ Running
    /\ pc = "TESTS_GENERATED"
    /\ \E reply \in ArbiterReplies :
         LET q == query_chairman(reply)
         IN  /\ final_result' = synthesize_final_code(current_submissions, tests, q.result)
             /\ sent' = sent \cup
                    (IF q.to = NoUrl THEN {}
                     ELSE {[stage |-> "synthesis", model |-> get_chairman_config.model,
                            to |-> q.to, answered |-> reply # None]})
    /\ pc' = "SYNTHESIZED"
    /\ trace' = Append(trace, "synthesis")
    /\ UNCHANGED <<nodes, node_health, clientvars, max_iterations, iteration_num,
                   current_submissions, reviews, refined_submissions, iterations,
                   tests, result, conversation, http, messages>>

\* run_code_council's return statement
Return ==
    /\ Running
    /\ pc = "SYNTHESIZED"
    /\ result' = RunResult(iterations, final_result, tests)
    /\ pc' = "DONE"
    /\ trace' = Append(trace, "return")
    /\ UNCHANGED <<nodes, node_health, clientvars, max_iterations, iteration_num,
                   current_submissions, reviews, refined_submissions, iterations,
                   tests, final_result, conversation, http, messages, sent>>

\* the keys of the result that generate_code reads to store the generation
StoredKeys == {"iterations", "final_code", "final_tests", "tests", "metadata"}

\* generate_code after run_code_council: storage.add_code_generation(...) and
\* the response; reading a key the result lacks raises KeyError
StoreGeneration ==
    /\ http = "running"
    /\ pc \in {"DONE", "ALL_FAILED", "RAISED"}
    /\ IF pc # "RAISED" /\ StoredKeys \subseteq DOMAIN result
       THEN /\ messages' = Append(messages, "assistant")
            /\ http' = "returned"
       ELSE /\ http' = "raised"
            /\ UNCHANGED messages
    /\ UNCHANGED <<nodes, node_health, clientvars, pc, max_iterations, iteration_num,
                   current_submissions, reviews, refined_submissions, iterations,
                   tests, final_result, result, conversation, trace, sent>>

Next ==
    \/ GenerateCodeRejected
    \/ Generate
    \/ Review
    \/ Refine
    \/ GenerateTests
    \/ Synthesize
    \/ Return
    \/ StoreGeneration

Spec == Init /\ [][Next]_vars

(***************************************************************************)
(* Properties of the pipeline.                                             *)
(***************************************************************************)
IsPrefix(s, t) == Len(s) <= Len(t) /\ s = SubSeq(t, 1, Len(s))

ExpectedTrace(m) ==
    <<"generation">>
    \o Flatten([i \in 1..m |-> <<"review", "refinement">>])
    \o <<"review", "test_generation", "synthesis", "return">>

Count(s, x) == Cardinality({i \in 1..Len(s) : s[i] = x})

\* generation has yielded at least one submission
Generated == iterations # <<>>

\* C1: in a run with iteration bound M whose generation yields a submission,
\* the passes occur in the order generation, M times (review, refinement), one
\* final review, test generation, synthesis, return; a finished run has made
\* M+1 review passes and M refinement passes and its log holds M+1 snapshots
\* indexed 0..M.
C1_StageOrder ==
    Generated =>
        /\ IsPrefix(trace, ExpectedTrace(max_iterations))
        /\ pc = "DONE" =>
            /\ trace = ExpectedTrace(max_iterations)
            /\ Count(trace, "review") = max_iterations + 1
            /\ Count(trace, "refinement") = max_iterations
            /\ Len(result.iterations) = max_iterations + 1
            /\ \A k \in 1..Len(result.iterations) : result.iterations[k].iteration = k - 1

C1_Witness ==
    /\ pc = "DONE"
    /\ max_iterations = 2
    /\ Len(current_submissions) = 2
    /\ trace = ExpectedTrace(2)

\* C2: every submission recorded in snapshot k >= 1 has iteration index k, one
\* more than the same model's submission in snapshot k-1, whether the
\* refinement request succeeded or failed.
C2_IterationIndex ==
    \A k \in 2..Len(iterations) :
        \A i \in 1..Len(iterations[k].code_submissions) :
            /\ iterations[k].code_submissions[i].iteration = k - 1
            /\ iterations[k].code_submissions[i].iteration
                 = iterations[k - 1].code_submissions[i].iteration + 1

\* the critiques the reviewers of the round addressed to label
CritiquesAddressedTo(revs, label) ==
    { [reviewer |-> revs[i].model,
       categories |-> revs[i].parsed_review.submissions[label].categories,
       score |-> revs[i].parsed_review.submissions[label].score] :
      i \in {j \in 1..Len(revs) : label \in DOMAIN revs[j].parsed_review.submissions} }

\* C3: the refinement prompt built for a submission holds at most three
\* critiques, each one addressed to that submission's own label in the
\* preceding review round.
C3_OwnCritiques ==
    pc = "REVIEWED" =>
        \A j \in 1..Len(current_submissions) :
            LET feedback == PromptFeedback(current_submissions[j], reviews)
            IN  /\ Len(feedback) <= 3
                /\ \A i \in 1..Len(feedback) :
                      feedback[i] \in CritiquesAddressedTo(reviews, LABELS[j])

\* C4: when generation yields no usable submission the run returns the error
\* result, with an empty iteration list and no final code, and dispatches no
\* review, refinement, test-generation or arbiter request.
C4_AllFailed ==
    (http # "idle" /\ conversation = "code" /\ current_submissions = <<>>) =>
        /\ pc = "ALL_FAILED"
        /\ "error" \in DOMAIN result
        /\ result.iterations = <<>>
        /\ result.final_code = None
        /\ iterations = <<>>
        /\ \A r \in sent : r.stage = "generation"

C4_Witness ==
    /\ pc = "ALL_FAILED"
    /\ \E r \in sent : r.stage = "generation" /\ ~r.answered
    /\ http # "running"

\* C5: when all models fail generation, the generate operation reports a
\* structured error payload and raises no exception.
C5_NoException == pc = "ALL_FAILED" => http # "raised"

\* the steps of a run after generation
RunStep == Review \/ Refine \/ GenerateTests \/ Synthesize \/ Return

C7_OnePerEntry ==
    (pc # "INIT" /\ \A r \in sent : r.stage = "generation" => r.answered) =>
        /\ iterations # <<>> \/ get_all_council_models = <<>>
        /\ iterations # <<>> =>
            /\ Len(iterations[1].code_submissions) = Len(get_all_council_models)
            /\ \A i \in 1..Len(iterations[1].code_submissions) :
                  iterations[1].code_submissions[i].iteration = 0

\* the refinement request of model in round k was answered
Refined(model, k) ==
    \E r \in sent : /\ r.stage = "refinement" /\ r.model = model
                    /\ r.iteration = k /\ r.answered

\* C8: every snapshot holds as many submissions as snapshot 0, by the same
\* models in the same order, and a submission whose refinement request failed
\* (no route, or retries exhausted) keeps in snapshot k its content of
\* snapshot k-1.
C8_CarriedForward ==
    \A k \in 1..Len(iterations) :
        /\ Len(iterations[k].code_submissions) = Len(iterations[1].code_submissions)
        /\ \A i \in 1..Len(iterations[k].code_submissions) :
              /\ iterations[k].code_submissions[i].model
                    = iterations[1].code_submissions[i].model
              /\ (k > 1 /\ ~Refined(iterations[k].code_submissions[i].model, k - 1)) =>
                    iterations[k].code_submissions[i].code
                        = iterations[k - 1].code_submissions[i].code

\* a round in which one refinement failed and the other succeeded
C8_Witness ==
    /\ Len(iterations) = 3
    /\ Len(iterations[3].code_submissions) = 2
    /\ ~Refined(iterations[3].code_submissions[1].model, 2)
    /\ Refined(iterations[3].code_submissions[2].model, 2)
    /\ iterations[3].code_submissions[1].code # <<>>

\* C9: each refinement request goes to the node that authored the submission
\* (the node recorded in it).
C9_SameNode ==
    \A r \in sent : r.stage = "refinement" => r.to = r.author

(***************************************************************************)
(* distributed.py: query_model attempt by attempt.  Each task is one call; *)
(* its events are the chat requests sent ("chat"), their outcomes ("ok",   *)
(* "fail") and the delays taken ("sleep"), in order.                       *)
(***************************************************************************)
QueryModels == {MA, MB}

ChatContents == {<<"x">>}

\* the endpoint overrides a caller can pass: none, or the first node's address
NodeUrls == {NoUrl, Url(nodes[1])}

\* a delay after every failed attempt, the last one included
SleepsAfterEvery(attempt) == TRUE

\* if attempt < MAX_RETRIES: await asyncio.sleep(RETRY_DELAY)
SleepsAfter(attempt) == attempt < MAX_RETRIES

\* for attempt in range(MAX_RETRIES + 1): whether attempt is still in range
InRange(attempt) == attempt < MAX_RETRIES + 1

\* base_url values the HTTP client rejects when it is constructed
InvalidURL(url) == url = "http://[:" \o ToString(DEFAULT_PORT)

\* a retry after a delay although no node was found
UnroutedRetries(call) == [call EXCEPT !.pc = "sleep", !.events = <<"sleep">>]

\* if result is None: return None
Unrouted(call) == [call EXCEPT !.pc = "returned", !.result = None]

\* the call is made with its arguments: the node is resolved and, if there is
\* one, the first chat request is sent; building the client of a malformed
\* address raises before the retry loop is entered
Started(idle, model, node_url) ==
    LET r == find_node_for_model(model)
        call == [idle EXCEPT !.model = model, !.node_url = node_url]
    IN  IF node_url # NoUrl
        THEN IF InvalidURL(node_url)
             THEN [call EXCEPT !.pc = "raised"]
             ELSE [call EXCEPT !.node_name = node_url, !.to = node_url,
                               !.pc = "chat", !.events = <<"chat">>]
        ELSE IF r = None
        THEN Unrouted(call)
        ELSE IF InvalidURL(Url(r))
        THEN [call EXCEPT !.pc = "raised"]
        ELSE [call EXCEPT !.node_name = r.name, !.to = Url(r),
                          !.pc = "chat", !.events = <<"chat">>]

StartCall(t, model, node_url) ==
    tasks' = [tasks EXCEPT ![t] = Started(tasks[t], model, node_url)]

QueryStart(t) ==
    /\ tasks[t].pc = "idle"
    /\ fanout.pc = "idle"
    /\ \E model \in QueryModels : \E node_url \in NodeUrls :
         StartCall(t, model, node_url)
    /\ UNCHANGED <<nodes, node_health, restvars, fanout, healthvars>>

\* the chat request is answered: the normalized result is returned
AttemptSucceeds(t) ==
    /\ tasks[t].pc = "chat"
    /\ \E content \in ChatContents :
         tasks' = [tasks EXCEPT ![t] =
            [@ EXCEPT !.pc = "returned",
                      !.events = Append(@, "ok"),
                      !.result = Normalized(Reply(content), tasks[t].node_name,
                                            tasks[t].model)]]
    /\ UNCHANGED <<nodes, node_health, restvars, fanout, healthvars>>

\* a loop that resolves the node again on every turn
ResolvedEachAttempt(task) ==
    LET r == find_node_for_model(task.model)
        again == IF task.node_url = NoUrl /\ r # None
                 THEN [task EXCEPT !.node_name = r.name, !.to = Url(r)]
                 ELSE task
    IN  IF InRange(task.attempt + 1)
        THEN [again EXCEPT !.attempt = @ + 1, !.pc = "chat", !.events = Append(@, "chat")]
        ELSE [task EXCEPT !.pc = "returned", !.result = None]

\* the loop's next turn: another chat request, or None once out of range
NextAttempt(task) ==
    IF InRange(task.attempt + 1)
    THEN [task EXCEPT !.attempt = @ + 1, !.pc = "chat", !.events = Append(@, "chat")]
    ELSE [task EXCEPT !.pc = "returned", !.result = None]

\* the chat request fails (error status, timeout, malformed body)
AttemptFails(t) ==
    /\ tasks[t].pc = "chat"
    /\ LET failed == [tasks[t] EXCEPT !.events = Append(@, "fail")]
       IN  tasks' = [tasks EXCEPT ![t] =
              IF SleepsAfter(failed.attempt)
              THEN [failed EXCEPT !.pc = "sleep", !.events = Append(@, "sleep")]
              ELSE NextAttempt(failed)]
    /\ UNCHANGED <<nodes, node_health, restvars, fanout, healthvars>>

\* the delay is over
Wake(t) ==
    /\ tasks[t].pc = "sleep"
    /\ tasks' = [tasks EXCEPT ![t] = NextAttempt(tasks[t])]
    /\ UNCHANGED <<nodes, node_health, restvars, fanout, healthvars>>

InitQuery == Init /\ conversation = "code"

NextQuery ==
    \E t \in 1..MaxTasks :
        \/ QueryStart(t)
        \/ AttemptSucceeds(t)
        \/ AttemptFails(t)
        \/ Wake(t)

SpecQuery == InitQuery /\ [][NextQuery]_vars

(***************************************************************************)
(* Properties of the dispatcher.                                           *)
(***************************************************************************)
\* the events of a call that made n chat requests, the last one answered or not
EventsOf(n, answered) ==
    Flatten([i \in 1..n |->
        IF i < n THEN <<"chat", "fail", "sleep">>
        ELSE IF answered THEN <<"chat", "ok">> ELSE <<"chat", "fail">>])

Chats(task) == Count(task.events, "chat")

\* what C10 says of every call but its "exactly when": at most MAX_RETRIES+1
\* chat requests, none after the first success, a delay only between two
\* attempts, and a successful call returns {content, node, model} of the
\* requested model
BoundedRetries(task) ==
    /\ Chats(task) <= MAX_RETRIES + 1
    /\ \E n \in 0..(MAX_RETRIES + 1) : \E answered \in BOOLEAN :
          IsPrefix(task.events, EventsOf(n, answered))
    /\ task.pc = "returned" =>
          /\ task.events = <<>> \/ task.events[Len(task.events)] # "sleep"
          /\ task.result # None =>
                /\ task.events = EventsOf(Chats(task), TRUE)
                /\ DOMAIN task.result = {"content", "node", "model"}
                /\ task.result.model = task.model
                /\ task.result.node = task.node_name
          /\ task.result = None => Count(task.events, "ok") = 0

\* C10 as stated: every call is bounded as above, and it returns none exactly
\* when all MAX_RETRIES+1 attempts failed.
C10_NoneIffExhausted ==
    \A t \in 1..MaxTasks :
        /\ BoundedRetries(tasks[t])
        /\ tasks[t].pc = "returned" =>
              (tasks[t].result = None
                 <=> Count(tasks[t].events, "fail") = MAX_RETRIES + 1)

\* C10 amended: every call is bounded as above, and it returns none exactly
\* when the router found no node for the model (no attempt is made then) or
\* all MAX_RETRIES+1 attempts failed.
C10_NoneIffNoRouteOrExhausted ==
    \A t \in 1..MaxTasks :
        /\ BoundedRetries(tasks[t])
        /\ tasks[t].pc = "returned" =>
              (tasks[t].result = None
                 <=> \/ tasks[t].events = <<>>
                     \/ Count(tasks[t].events, "fail") = MAX_RETRIES + 1)

\* a call that failed MAX_RETRIES+1 times beside one answered on a retry
C10_Witness ==
    /\ tasks[1].pc = "returned"
    /\ tasks[1].result = None
    /\ tasks[1].events = EventsOf(MAX_RETRIES + 1, FALSE)
    /\ tasks[2].pc = "returned"
    /\ tasks[2].result # None
    /\ tasks[2].events = EventsOf(2, TRUE)

(***************************************************************************)
(* distributed.py: query_models_parallel task by task.  Each configured    *)
(* entry gets its own query_model call (a task); the call gathers them and *)
(* builds the model -> response dict.                                      *)
(***************************************************************************)
\* a registry whose first node has a host no address can be built from
MalformedHost ==
    << LLMNode("n1", "[", <<MA>>, FALSE, NoModel, TRUE),
       LLMNode("n2", "h2", <<MB>>, TRUE, MB, TRUE) >>

FanOutClusters == Clusters \cup { [nodes |-> MalformedHost, node_health |-> << >>] }

\* the model lists a caller asks for
RequestedModels == { <<MA>>, <<MB>>, <<MA, MB>>, <<MB, MA>>, <<MA1>>, <<MA1, MA2>> }

\* the module-level query_models_parallel: the configured entries of the
\* requested models, then an auto-routed entry for every other requested model
FilteredConfig(models) ==
    LET filtered_config ==
            SelectSeq(get_all_council_models, LAMBDA c : c.model \in Range(models))
        configured_models == {filtered_config[i].model : i \in 1..Len(filtered_config)}
        others == SelectSeq(models, LAMBDA m : m \notin configured_models)
    IN  filtered_config \o
        [i \in 1..Len(others) |->
            [model |-> others[i], node_name |-> "", node_url |-> NoUrl]]

\* tasks = [query_with_config(config) for config in models_config]
FanOutStart ==
    /\ fanout.pc = "idle"
    /\ \A t \in 1..MaxTasks : tasks[t].pc = "idle"
    /\ \E models \in RequestedModels :
         /\ Len(FilteredConfig(models)) <= MaxTasks
         /\ fanout' = [pc |-> "gathering", models_config |-> FilteredConfig(models),
                       responses |-> <<>>]
    /\ UNCHANGED <<nodes, node_health, restvars, tasks, healthvars>>

\* query_with_config(config) starts running
TaskStart(t) ==
    /\ fanout.pc = "gathering"
    /\ t <= Len(fanout.models_config)
    /\ tasks[t].pc = "idle"
    /\ StartCall(t, fanout.models_config[t].model, fanout.models_config[t].node_url)
    /\ UNCHANGED <<nodes, node_health, restvars, fanout, healthvars>>

\* the gather returns as soon as one task has finished
AnySettled(n) == n = 0 \/ \E t \in 1..n : tasks[t].pc \in {"returned", "raised"}

\* await asyncio.gather(*tasks, return_exceptions=True): every task finished
AllSettled(n) == \A t \in 1..n : tasks[t].pc \in {"returned", "raised"}

\* the results that are tuples, in task order, as (model, response) pairs
TupleResults(n) ==
    LET returned == SelectSeq([t \in 1..n |-> tasks[t]], LAMBDA k : k.pc = "returned")
    IN  [i \in 1..Len(returned) |->
            [key |-> returned[i].model, value |-> returned[i].result]]

\* the gather is over: the response dict is built and returned
Gather ==
    /\ fanout.pc = "gathering"
    /\ AllSettled(Len(fanout.models_config))
    /\ fanout' = [fanout EXCEPT !.pc = "returned",
                     !.responses = DictOf(<<>>, TupleResults(Len(fanout.models_config)))]
    /\ UNCHANGED <<nodes, node_health, restvars, tasks, healthvars>>

InitFanOut == InitWith(FanOutClusters) /\ conversation = "code"

NextFanOut ==
    \/ FanOutStart
    \/ Gather
    \/ \E t \in 1..MaxTasks :
        \/ TaskStart(t)
        \/ AttemptSucceeds(t)
        \/ AttemptFails(t)
        \/ Wake(t)

SpecFanOut == InitFanOut /\ [][NextFanOut]_vars

(***************************************************************************)
(* Properties of the fan-out.                                              *)
(***************************************************************************)
DictKeys(d) == {d[i].key : i \in 1..Len(d)}

DictGet(d, key) == d[CHOOSE i \in 1..Len(d) : d[i].key = key].value

\* the tasks of the call in progress
FanOutTasks == 1..Len(fanout.models_config)

\* the last task of the call that asked for the model
LastFor(model) == Min({-t : t \in {u \in FanOutTasks : tasks[u].model = model}}) * (-1)

\* C11: once query_models_parallel has returned, the mapping has an entry for
\* every requested model, and the entry of a model whose (only) request task
\* raised an exception is none.
C11_EntryForEveryModel ==
    fanout.pc = "returned" =>
        \A t \in FanOutTasks :
            /\ fanout.models_config[t].model \in DictKeys(fanout.responses)
            /\ (tasks[t].pc = "raised" /\ LastFor(tasks[t].model) = t)
                  => DictGet(fanout.responses, tasks[t].model) = None

\* what a task's own attempts give: none unless one of them was answered,
\* and then the normalized reply of that task's node and model
OwnOutcome(task) ==
    IF Count(task.events, "ok") = 0 THEN task.result = None
    ELSE /\ task.result # None
         /\ task.result.model = task.model
         /\ task.result.node = task.node_name

\* C12: query_models_parallel returns only after every request task has
\* finished (answered, out of retries, or without a node); a task that has not
\* finished can always take its next step whatever its siblings are doing; and
\* each entry of the returned mapping is the result of that model's own
\* (last) request, fixed by that request's own attempts.
C12_Independent ==
    /\ fanout.pc = "returned" =>
          /\ \A t \in FanOutTasks : tasks[t].pc \in {"returned", "raised"}
          /\ \A t \in FanOutTasks :
                (tasks[t].pc = "returned" /\ LastFor(tasks[t].model) = t)
                   => /\ DictGet(fanout.responses, tasks[t].model) = tasks[t].result
                      /\ OwnOutcome(tasks[t])
    /\ fanout.pc = "gathering" =>
          \A t \in FanOutTasks :
              tasks[t].pc \notin {"returned", "raised"}
                 => ENABLED (TaskStart(t) \/ AttemptSucceeds(t) \/ AttemptFails(t) \/ Wake(t))

\* two requests gathered: the first ran out of retries, the second was answered
\* at once and its entry holds its reply
C12_Witness ==
    /\ fanout.pc = "returned"
    /\ Len(fanout.models_config) = 2
    /\ tasks[1].events = EventsOf(MAX_RETRIES + 1, FALSE)
    /\ tasks[2].events = EventsOf(1, TRUE)
    /\ tasks[1].model # tasks[2].model
    /\ DictGet(fanout.responses, tasks[1].model) = None
    /\ DictGet(fanout.responses, tasks[2].model) # None

\* the request of the task found no node: auto-routed, and the router said none
NoRoute(task) ==
    /\ task.pc # "idle"
    /\ task.node_url = NoUrl
    /\ find_node_for_model(task.model) = None

\* C18: a query_model call for which the router finds no node returns none at
\* once, having sent no chat request and taken no retry and no delay; in a
\* fan-out the other models' entries are those of their own requests.
C18_NoRouteImmediate ==
    \A t \in FanOutTasks :
        NoRoute(tasks[t]) =>
            /\ tasks[t].pc = "returned"
            /\ tasks[t].result = None
            /\ tasks[t].events = <<>>
            /\ tasks[t].attempt = 0
            /\ fanout.pc = "returned" =>
                  /\ DictGet(fanout.responses, tasks[t].model) = None
                  /\ \A u \in FanOutTasks \ {t} :
                        (tasks[u].pc = "returned" /\ LastFor(tasks[u].model) = u)
                           => DictGet(fanout.responses, tasks[u].model) = tasks[u].result

\* a fan-out in which one model had no node while the other was answered
C18_Witness ==
    /\ fanout.pc = "returned"
    /\ \E t, u \in FanOutTasks :
          /\ NoRoute(tasks[t])
          /\ tasks[u].result # None
          /\ DictGet(fanout.responses, tasks[u].model) # None
          /\ DictGet(fanout.responses, tasks[t].model) = None

(***************************************************************************)
(* distributed.py: health probing, probe by probe.  A health record is an  *)
(* object that check_node_health changes in place: oid tells the objects   *)
(* apart, and a change made through one reference shows through all.       *)
(***************************************************************************)
MC == <<"c">>

\* n1 is configured for b and n2 for a
Crossed ==
    << LLMNode("n1", "h1", <<MB>>, FALSE, NoModel, TRUE),
       LLMNode("n2", "h2", <<MA>>, TRUE, MA, TRUE) >>

HealthClusters ==
    { [nodes |-> r, node_health |-> << >>] :
        r \in {SameModelTwice, OneEnabled, NoneEnabled, Crossed} }

\* data.get(key, default)
Get(data, key, default) == IF key \in DOMAIN data THEN data[key] ELSE default

\* the JSON bodies a node answers GET /health with (status 200)
HealthBodies ==
    { [status |-> "ok", available_models |-> <<MA>>, advertised_models |-> <<MC>>],
      [status |-> "ok", advertised_models |-> <<MC>>],
      [status |-> "degraded", available_models |-> <<>>, advertised_models |-> <<>>],
      [node |-> "n"] }

\* a 2xx answer always counts as healthy
AlwaysHealthy(data) == TRUE

\* health.is_healthy = data.get("status") == "ok"
StatusOk(data) == Get(data, "status", "") = "ok"

\* the try block of check_node_health once the body has been read
ProbeSuccess(health, data) ==
    [health EXCEPT !.is_healthy = StatusOk(data),
                   !.last_error = "",
                   !.consecutive_failures = 0,
                   !.available_models =
                       Get(data, "available_models", Get(data, "advertised_models", <<>>))]

\* the failure count is set to one, whatever it was
ProbeFailureReset(health) ==
    [health EXCEPT !.is_healthy = FALSE, !.last_error = "error",
                   !.consecutive_failures = 1]

\* the except block of check_node_health
ProbeFailure(health) ==
    [health EXCEPT !.is_healthy = FALSE, !.last_error = "error",
                   !.consecutive_failures = @ + 1]

\* health = self._node_health.get(node.name, NodeHealth(node_name=node.name))
HealthRef(node, fresh) ==
    IF node.name \in DOMAIN node_health THEN node_health[node.name]
    ELSE [NodeHealth(node.name) EXCEPT !.oid = fresh]

\* self._node_health[name] = health, the object of reference oid now being health
StoreHealth(name, health) ==
    [n \in DOMAIN node_health \cup {name} |->
        IF n = name THEN health ELSE node_health[n]]

\* the other references to the object see the change
Aliased(bs, health) ==
    [b \in DOMAIN bs |->
        [bs[b] EXCEPT !.probes =
            [i \in DOMAIN bs[b].probes |->
                IF bs[b].probes[i].health.oid = health.oid
                   /\ bs[b].probes[i].health.node_name = health.node_name
                THEN [bs[b].probes[i] EXCEPT !.health = health]
                ELSE bs[b].probes[i]]]]

NoBatchRunning == \A b \in 1..MaxBatches : batches[b].pc # "running"

\* check_all_nodes_health is called (the calls are numbered in the order they
\* are made): one probe per enabled node, each reading the node's record and
\* sending GET /health
StartBatch(b) ==
    /\ batches[b].pc = "idle"
    /\ \A c \in 1..(b - 1) : batches[c].pc # "idle"
    /\ LET en == get_enabled_nodes
       IN  batches' = [batches EXCEPT ![b] =
              [pc |-> "running",
               probes |-> [i \in 1..Len(en) |->
                   [name |-> en[i].name, pc |-> "get", outcome |-> "", data |-> None,
                    before |-> HealthRef(en[i], b * 10 + i),
                    after |-> HealthRef(en[i], b * 10 + i),
                    health |-> HealthRef(en[i], b * 10 + i)]],
               result |-> <<>>]]
    /\ UNCHANGED <<nodes, node_health, restvars, tasks, fanout, streak, routed>>

\* a check_all_nodes_health call made while no other is running
BatchStart(b) ==
    /\ NoBatchRunning
    /\ StartBatch(b)

\* a probe once it has finished: health is the object it returns, before and
\* after are the object's values when the answer came and when the probe returned
Finished(probe, health, outcome, data) ==
    [probe EXCEPT !.pc = "done", !.outcome = outcome, !.data = data,
                  !.before = probe.health, !.after = health, !.health = health]

\* the node answers 200 with a JSON object
ProbeSucceeds(b, i) ==
    /\ batches[b].pc = "running"
    /\ i \in DOMAIN batches[b].probes
    /\ batches[b].probes[i].pc = "get"
    /\ \E data \in HealthBodies :
         LET probe == batches[b].probes[i]
             health == ProbeSuccess(probe.health, data)
             done == [batches EXCEPT ![b].probes[i] = Finished(probe, health, "ok", data)]
         IN  /\ batches' = [Aliased(done, health) EXCEPT ![b].probes[i] = done[b].probes[i]]
             /\ node_health' = StoreHealth(probe.name, health)
             /\ streak' = [streak EXCEPT ![probe.name] = 0]
    /\ UNCHANGED <<nodes, restvars, tasks, fanout, routed>>

\* the probe fails: timeout, connection error, error status, malformed body
ProbeFails(b, i) ==
    /\ batches[b].pc = "running"
    /\ i \in DOMAIN batches[b].probes
    /\ batches[b].probes[i].pc = "get"
    /\ LET probe == batches[b].probes[i]
           health == ProbeFailure(probe.health)
           done == [batches EXCEPT ![b].probes[i] = Finished(probe, health, "fail", None)]
       IN  /\ batches' = [Aliased(done, health) EXCEPT ![b].probes[i] = done[b].probes[i]]
           /\ node_health' = StoreHealth(probe.name, health)
           /\ streak' = [streak EXCEPT ![probe.name] = @ + 1]
    /\ UNCHANGED <<nodes, restvars, tasks, fanout, routed>>

RECURSIVE StoreAll(_, _)
\* for node, result in zip(nodes, results): the health dict after the loop
StoreAll(nh, probes) ==
    IF probes = <<>> THEN nh
    ELSE StoreAll([n \in DOMAIN nh \cup {Head(probes).name} |->
                      IF n = Head(probes).name THEN Head(probes).health ELSE nh[n]],
                  Tail(probes))

\* the gather returns as soon as one probe has finished
FirstProbed(probes) == probes = <<>> \/ \E i \in DOMAIN probes : probes[i].pc = "done"

\* await asyncio.gather(*tasks, return_exceptions=True): every probe finished
AllProbed(probes) == \A i \in DOMAIN probes : probes[i].pc = "done"

\* the gather is over: the results are stored and a copy of the dict returned
BatchReturn(b) ==
    /\ batches[b].pc = "running"
    /\ AllProbed(batches[b].probes)
    /\ node_health' = StoreAll(node_health, batches[b].probes)
    /\ batches' = [batches EXCEPT ![b].pc = "returned",
                                  ![b].result = StoreAll(node_health, batches[b].probes)]
    /\ UNCHANGED <<nodes, restvars, tasks, fanout, streak, routed>>

\* the models the router is asked for
RouteModels == {MA, MB, MC, MA1}

\* the router hands out any enabled node
RouteToAny ==
    /\ \E model \in RouteModels, i \in 1..Len(nodes) :
          routed' = [model |-> model, node |-> nodes[i]]
    /\ UNCHANGED <<nodes, node_health, restvars, tasks, fanout, batches, streak>>

\* find_node_for_model(model) is called
Route ==
    /\ \E model \in RouteModels :
          routed' = [model |-> model, node |-> find_node_for_model(model)]
    /\ UNCHANGED <<nodes, node_health, restvars, tasks, fanout, batches, streak>>

InitHealth == InitWith(HealthClusters) /\ conversation = "code"

NextHealth ==
    \/ Route
    \/ \E b \in 1..MaxBatches :
        \/ BatchStart(b)
        \/ BatchReturn(b)
        \/ \E i \in 1..Len(nodes) : ProbeSucceeds(b, i) \/ ProbeFails(b, i)

SpecHealth == InitHealth /\ [][NextHealth]_vars

(***************************************************************************)
(* Properties of the health prober.                                        *)
(***************************************************************************)
\* the probes that have finished, as <<batch, probe>>
DoneProbes ==
    {bi \in (1..MaxBatches) \X (1..Len(nodes)) :
        /\ bi[2] \in DOMAIN batches[bi[1]].probes
        /\ batches[bi[1]].probes[bi[2]].pc = "done"}

ProbeOf(bi) == batches[bi[1]].probes[bi[2]]

\* the model list a 2xx body carries
ModelsCarried(data) ==
    Get(data, "available_models", Get(data, "advertised_models", <<>>))

\* C13 as stated: after check_node_health has received a 2xx response, the
\* health value has healthy=true, a failure count of 0, no error and the model
\* list the response carries.
C13_HealthyAfter2xx ==
    \A bi \in DoneProbes :
        ProbeOf(bi).outcome = "ok" =>
            /\ ProbeOf(bi).after.is_healthy
            /\ ProbeOf(bi).after.consecutive_failures = 0
            /\ ProbeOf(bi).after.last_error = ""
            /\ ProbeOf(bi).after.available_models = ModelsCarried(ProbeOf(bi).data)

\* C13 amended: after check_node_health has received a 2xx response with a
\* JSON object, the health value has a failure count of 0, no error, the model
\* list the response carries, and healthy=true exactly when the body's status
\* is "ok".
C13_HealthyIffStatusOk ==
    \A bi \in DoneProbes :
        ProbeOf(bi).outcome = "ok" =>
            /\ ProbeOf(bi).after.is_healthy <=> Get(ProbeOf(bi).data, "status", "") = "ok"
            /\ ProbeOf(bi).after.consecutive_failures = 0
            /\ ProbeOf(bi).after.last_error = ""
            /\ ProbeOf(bi).after.available_models = ModelsCarried(ProbeOf(bi).data)
            /\ ProbeOf(bi).after.node_name = ProbeOf(bi).name

\* a node that had failed a probe answers 200 "ok" with its models, while the
\* other node answers 200 "degraded"
C13_Witness ==
    /\ batches[2].pc = "returned"
    /\ Len(batches[2].probes) = 2
    /\ batches[2].probes[1].outcome = "ok"
    /\ batches[2].probes[1].before.consecutive_failures = 1
    /\ batches[2].probes[1].after.is_healthy
    /\ batches[2].probes[1].after.available_models = <<MA>>
    /\ batches[2].probes[2].outcome = "ok"
    /\ Get(batches[2].probes[2].data, "status", "") = "degraded"
    /\ ~batches[2].probes[2].after.is_healthy

\* C14: a failed probe returns (it never raises) a health value with
\* healthy=false, the error stored and a failure count one above that of the
\* node's previous record (0 when it had none); after k failed probes in a row
\* the node's count is k.
C14_FailureCounted ==
    /\ \A bi \in DoneProbes :
          /\ ProbeOf(bi).outcome \in {"ok", "fail"}
          /\ ProbeOf(bi).outcome = "fail" =>
                /\ ~ProbeOf(bi).after.is_healthy
                /\ ProbeOf(bi).after.last_error # ""
                /\ ProbeOf(bi).after.consecutive_failures
                      = ProbeOf(bi).before.consecutive_failures + 1
                /\ ProbeOf(bi).after.available_models = ProbeOf(bi).before.available_models
    /\ \A n \in DOMAIN node_health : node_health[n].consecutive_failures = streak[n]

\* a node fails two probes in a row and its count is 2
C14_Witness ==
    /\ batches[1].pc = "returned"
    /\ batches[1].probes # <<>>
    /\ batches[1].probes[1].outcome = "fail"
    /\ batches[2].probes # <<>>
    /\ batches[2].probes[1].outcome = "fail"
    /\ batches[2].probes[1].after.consecutive_failures = 2
    /\ node_health[batches[2].probes[1].name].consecutive_failures = 2

\* what a probe's own answer makes of the record it started from
OwnRecord(probe) ==
    IF probe.outcome = "fail" THEN ProbeFailure(probe.before)
    ELSE ProbeSuccess(probe.before, probe.data)

\* C15: check_all_nodes_health probes every enabled node; while it runs, every
\* unfinished probe can finish whatever the others did; when it has returned,
\* the map it returns holds for every enabled node the record that node's own
\* probe outcome gives.
C15_BatchIsolated ==
    \A b \in 1..MaxBatches :
        /\ batches[b].pc # "idle" =>
              [i \in DOMAIN batches[b].probes |-> batches[b].probes[i].name]
                 = [i \in 1..Len(get_enabled_nodes) |-> get_enabled_nodes[i].name]
        /\ batches[b].pc = "running" =>
              \A i \in DOMAIN batches[b].probes :
                  batches[b].probes[i].pc = "get"
                     => ENABLED ProbeSucceeds(b, i) /\ ENABLED ProbeFails(b, i)
        /\ batches[b].pc = "returned" =>
              \A i \in DOMAIN batches[b].probes :
                  /\ batches[b].probes[i].pc = "done"
                  /\ batches[b].probes[i].name \in DOMAIN batches[b].result
                  /\ batches[b].result[batches[b].probes[i].name]
                        = OwnRecord(batches[b].probes[i])

\* a batch of two probes has returned: the first failed, the second was
\* answered, and the map holds a failed record and a healthy one
C15_Witness ==
    /\ batches[1].pc = "returned"
    /\ Len(batches[1].probes) = 2
    /\ batches[1].probes[1].outcome = "fail"
    /\ batches[1].probes[2].outcome = "ok"
    /\ ~batches[1].result[batches[1].probes[1].name].is_healthy
    /\ batches[1].result[batches[1].probes[2].name].is_healthy

(***************************************************************************)
(* Properties of the router, stated on the registry and the health records *)
(* themselves.                                                             *)
(***************************************************************************)
NotMarkedUnhealthy(node) ==
    node.name \in DOMAIN node_health => node_health[node.name].is_healthy

\* the node's configuration lists the model, exactly or up to the tag
ListsModel(node, model) ==
    \E i \in 1..Len(node.models) :
        node.models[i] = model \/ node.models[i][1] = model[1]

\* the node was probed, is healthy, and its last probe carried the model
AdvertisedModel(node, model) ==
    /\ node.name \in DOMAIN node_health
    /\ node_health[node.name].is_healthy
    /\ \E i \in 1..Len(node_health[node.name].available_models) :
          node_health[node.name].available_models[i][1] = model[1]

ConfiguredCandidates(model) ==
    {i \in 1..Len(nodes) :
        nodes[i].enabled /\ NotMarkedUnhealthy(nodes[i]) /\ ListsModel(nodes[i], model)}

AdvertisedCandidates(model) ==
    {i \in 1..Len(nodes) :
        nodes[i].enabled /\ NotMarkedUnhealthy(nodes[i]) /\ AdvertisedModel(nodes[i], model)}

\* C16: find_node_for_model returns only an enabled node that is not marked
\* unhealthy and that lists the model in its configuration (exactly or up to
\* the tag) or, probed healthy, carried it in its last probe; it returns none
\* exactly when there is no such node.
C16_RoutesToEligible ==
    \A model \in RouteModels :
        LET r == find_node_for_model(model)
        IN  /\ r # None =>
                  \E i \in ConfiguredCandidates(model) \cup AdvertisedCandidates(model) :
                      r = nodes[i]
            /\ r = None <=>
                  ConfiguredCandidates(model) \cup AdvertisedCandidates(model) = {}

\* the router was asked for each kind: a model only the healthy first node
\* advertises, and a model whose only configured node is marked unhealthy
C16_Witness ==
    /\ routed # None
    /\ routed.node = find_node_for_model(routed.model)
    /\ \/ /\ routed.model = MC
          /\ routed.node # None
          /\ ConfiguredCandidates(MC) = {}
       \/ /\ routed.model = MB
          /\ routed.node = None
          /\ \E i \in 1..Len(nodes) :
                nodes[i].enabled /\ ListsModel(nodes[i], MB) /\ ~NotMarkedUnhealthy(nodes[i])
    /\ \E n \in DOMAIN node_health : ~node_health[n].is_healthy

\* C17: when a configured candidate exists find_node_for_model returns the
\* first configured candidate in registry order, even if an earlier node
\* advertises the model; otherwise it returns the first advertising candidate
\* in registry order.
C17_ConfiguredFirst ==
    \A model \in RouteModels :
        LET r == find_node_for_model(model)
        IN  /\ ConfiguredCandidates(model) # {} =>
                  r = nodes[Min(ConfiguredCandidates(model))]
            /\ (ConfiguredCandidates(model) = {} /\ AdvertisedCandidates(model) # {}) =>
                  r = nodes[Min(AdvertisedCandidates(model))]

\* model a is configured on the second node only and advertised by the first:
\* the router returned the second node
C17_Witness ==
    /\ routed # None
    /\ routed.model = MA
    /\ routed.node = find_node_for_model(MA)
    /\ ConfiguredCandidates(MA) = {2}
    /\ 1 \in AdvertisedCandidates(MA)
    /\ routed.node = nodes[2]

(***************************************************************************)
(* Properties of the review labels and of the synthesis fallback.          *)
(***************************************************************************)
\* the snapshots a review pass has been stored in
Reviewed == {k \in 1..Len(iterations) : "label_to_model" \in DOMAIN iterations[k]}

\* C19: the label map stored with a snapshot by its review round has exactly
\* the first K letters as keys for the snapshot's K submissions, maps the i-th
\* letter to the i-th submission's model, and no two labels to one submission;
\* in the returned log every snapshot has such a map.
C19_LabelBijection ==
    /\ \A k \in Reviewed :
          LET subs == iterations[k].code_submissions
              map == iterations[k].label_to_model
          IN  /\ DOMAIN map = {LABELS[i] : i \in 1..Len(subs)}
              /\ \A i \in 1..Len(subs) : map[LABELS[i]] = subs[i].model
              /\ \A i, j \in 1..Len(subs) : subs[i].model = subs[j].model => i = j
    /\ pc = "DONE" => Reviewed = 1..Len(iterations)

\* a returned log of two rounds over two submissions, labelled A and B
C19_Witness ==
    /\ pc = "DONE"
    /\ Len(iterations) = 2
    /\ \A k \in 1..2 :
          /\ Len(iterations[k].code_submissions) = 2
          /\ DOMAIN iterations[k].label_to_model = {"A", "B"}

\* the arbiter gave no reply: its request failed, or none could be sent
ArbiterFailed ==
    \A s \in sent : s.stage = "synthesis" => ~s.answered

\* C20: when the arbiter gives no reply, the final code is the content of the
\* first submission of the last snapshot and the final tests are the first
\* generated test set (nothing when no test set was generated), unchanged.
C20_Fallback ==
    (pc \in {"SYNTHESIZED", "DONE"} /\ ArbiterFailed) =>
        /\ final_result.code = iterations[Len(iterations)].code_submissions[1].code
        /\ final_result.tests = IF tests = <<>> THEN <<>> ELSE tests[1].test_code
        /\ pc = "DONE" =>
              /\ result.final_code = final_result.code
              /\ result.final_tests = final_result.tests

\* a run returned without an arbiter reply: the first of two different
\* submissions is the final code, the first test set the final tests
C20_Witness ==
    /\ pc = "DONE"
    /\ ArbiterFailed
    /\ Len(current_submissions) = 2
    /\ current_submissions[1].code # current_submissions[2].code
    /\ result.final_code = current_submissions[1].code
    /\ tests # <<>>
    /\ result.final_tests = tests[1].test_code

(***************************************************************************)
(* config.py: the registry operations, called one after the other on the   *)
(* in-memory list, and the arbiter resolved from it.                       *)
(***************************************************************************)
\* the shapes a node is registered in: a plain member, the arbiter, a node
\* flagged as arbiter with neither an arbiter model nor any model, a disabled
\* arbiter
NodeShapes(name, host) ==
    { LLMNode(name, host, <<MA>>, FALSE, NoModel, TRUE),
      LLMNode(name, host, <<MB>>, TRUE, MB, TRUE),
      LLMNode(name, host, <<>>, TRUE, NoModel, TRUE),
      LLMNode(name, host, <<MA>>, TRUE, MA, FALSE) }

NodeNames == {"n1", "n2", "n3"}

CandidateNodes ==
    NodeShapes("n1", "h1") \cup NodeShapes("n2", "h2") \cup NodeShapes("n3", "h3")

\* any(n.name == name for n in COUNCIL_NODES)
HasName(registry, name) == \E i \in 1..Len(registry) : registry[i].name = name

\* the node is appended whatever its name
add_node_unchecked(registry, node) ==
    [nodes |-> Append(registry, node), outcome |-> "ok"]

\* [nodes: the registry after the call, outcome: "ok" or the error raised]
add_node(registry, node) ==
    IF HasName(registry, node.name)
    THEN [nodes |-> registry, outcome |-> "already exists"]
    ELSE [nodes |-> Append(registry, node), outcome |-> "ok"]

\* the new name is not compared with the other nodes' names
update_node_unchecked(registry, node_name, updated_node) ==
    IF ~HasName(registry, node_name)
    THEN [nodes |-> registry, outcome |-> "not found"]
    ELSE [nodes |-> [registry EXCEPT
                        ![Min({i \in 1..Len(registry) : registry[i].name = node_name})]
                            = updated_node],
          outcome |-> "ok"]

update_node(registry, node_name, updated_node) ==
    IF ~HasName(registry, node_name)
    THEN [nodes |-> registry, outcome |-> "not found"]
    ELSE IF updated_node.name # node_name /\ HasName(registry, updated_node.name)
    THEN [nodes |-> registry, outcome |-> "already exists"]
    ELSE [nodes |-> [registry EXCEPT
                        ![Min({i \in 1..Len(registry) : registry[i].name = node_name})]
                            = updated_node],
          outcome |-> "ok"]

remove_node(registry, node_name) ==
    LET kept == SelectSeq(registry, LAMBDA n : n.name # node_name)
    IN  IF Len(kept) = Len(registry)
        THEN [nodes |-> kept, outcome |-> "not found"]
        ELSE [nodes |-> kept, outcome |-> "ok"]

\* the call is recorded with the registry it found and what it did
RegistryCall(op, name, new_name, done) ==
    /\ nodes' = done.nodes
    /\ registry_op' = [op |-> op, name |-> name, new_name |-> new_name,
                       outcome |-> done.outcome, before |-> nodes]
    /\ UNCHANGED <<node_health, runvars, cachevars, tasks, fanout, healthvars, arbiter,
                   applied, roundvars>>

AddNode ==
    \E node \in CandidateNodes :
        /\ Len(add_node(nodes, node).nodes) <= MaxNodes
        /\ RegistryCall("add_node", node.name, node.name, add_node(nodes, node))

UpdateNode ==
    \E node_name \in NodeNames : \E updated_node \in CandidateNodes :
        /\ Len(nodes) <= MaxNodes
        /\ RegistryCall("update_node", node_name, updated_node.name,
                        update_node(nodes, node_name, updated_node))

RemoveNode ==
    \E node_name \in NodeNames :
        /\ Len(nodes) <= MaxNodes
        /\ RegistryCall("remove_node", node_name, node_name, remove_node(nodes, node_name))

\* get_chairman_config() is called
ResolveArbiter ==
    /\ arbiter' = [config |-> get_chairman_config]
    /\ UNCHANGED <<nodes, node_health, runvars, cachevars, tasks, fanout, healthvars,
                   registry_op, applied, roundvars>>

EmptyRegistry == { [nodes |-> << >>, node_health |-> << >>] }

InitRegistry == InitWith(EmptyRegistry) /\ conversation = "code"

NextRegistry == AddNode \/ UpdateNode \/ RemoveNode \/ ResolveArbiter

SpecRegistry == InitRegistry /\ [][NextRegistry]_vars

(***************************************************************************)
(* Properties of the registry.                                             *)
(***************************************************************************)
\* the enabled nodes' positions in the registry
EnabledAt == {i \in 1..Len(nodes) : nodes[i].enabled}

\* the arbiter a node stands for: its arbiter model, or its first model
ArbiterAt(i, model) ==
    [model |-> model, node_name |-> nodes[i].name, node_url |-> Url(nodes[i])]

\* C21 as stated: with an enabled node flagged as arbiter, get_chairman_config
\* returns the arbiter model and node of such a node; with none flagged, the
\* first model of the first enabled node; and none only if no enabled node has
\* a model.
C21_FlaggedElseFirst ==
    LET flagged == {i \in EnabledAt : nodes[i].is_chairman}
        r == get_chairman_config
    IN  /\ flagged # {} =>
              \E i \in flagged : r = ArbiterAt(i, nodes[i].chairman_model)
        /\ (flagged = {} /\ EnabledAt # {}) =>
              /\ nodes[Min(EnabledAt)].models # <<>>
              /\ r = ArbiterAt(Min(EnabledAt), nodes[Min(EnabledAt)].models[1])
        /\ r = None => \A i \in EnabledAt : nodes[i].models = <<>>

\* C21 amended: get_chairman_config returns the arbiter model and node of the
\* first enabled node that is flagged as arbiter and names an arbiter model;
\* if there is none, the first model of the first enabled node that has
\* models; and none only if no enabled node has a model, so that an arbiter is
\* resolved whenever an enabled model exists, whatever registry operations
\* came before.
C21_NamedElseFirstModel ==
    LET named == {i \in EnabledAt : nodes[i].is_chairman /\ nodes[i].chairman_model # NoModel}
        stocked == {i \in EnabledAt : nodes[i].models # <<>>}
        r == get_chairman_config
    IN  /\ named # {} => r = ArbiterAt(Min(named), nodes[Min(named)].chairman_model)
        /\ (named = {} /\ stocked # {}) =>
              r = ArbiterAt(Min(stocked), nodes[Min(stocked)].models[1])
        /\ r = None => stocked = {}
        /\ stocked # {} => r # None

\* the arbiter was resolved on a registry whose first node is flagged without
\* naming a model and has no model: it is the second node's first model
C21_Witness ==
    /\ arbiter # None
    /\ arbiter.config = get_chairman_config
    /\ Len(nodes) = 2
    /\ nodes[1].enabled /\ nodes[1].is_chairman /\ nodes[1].models = <<>>
    /\ arbiter.config # None
    /\ arbiter.config.node_name = nodes[2].name
    /\ arbiter.config.model = nodes[2].models[1]

\* the registry of the last call had a node of that name
Knew(name) == \E i \in 1..Len(registry_op.before) : registry_op.before[i].name = name

\* C23: add_node of an existing name fails with the duplicate-name error;
\* update_node of an absent name fails with not-found, and of a present name
\* to a name another node has with the duplicate-name error; remove_node of an
\* absent name fails with not-found; a failed call leaves the registry as it
\* found it.
C23_FailuresLeaveRegistry ==
    registry_op # None =>
        /\ registry_op.op = "add_node" =>
              (Knew(registry_op.name) <=> registry_op.outcome = "already exists")
        /\ registry_op.op = "update_node" =>
              /\ ~Knew(registry_op.name) <=> registry_op.outcome = "not found"
              /\ (Knew(registry_op.name) /\ registry_op.new_name # registry_op.name
                    /\ Knew(registry_op.new_name))
                 <=> registry_op.outcome = "already exists"
        /\ registry_op.op = "remove_node" =>
              /\ ~Knew(registry_op.name) <=> registry_op.outcome = "not found"
              /\ registry_op.outcome \in {"ok", "not found"}
        /\ registry_op.outcome # "ok" => nodes = registry_op.before
        /\ registry_op.outcome = "ok" => nodes # registry_op.before \/ registry_op.op = "update_node"

\* an update that would rename a node to the other node's name was refused
C23_Witness ==
    /\ registry_op # None
    /\ registry_op.op = "update_node"
    /\ registry_op.outcome = "already exists"
    /\ Len(nodes) = 2
    /\ nodes = registry_op.before

\* C24: no two nodes of the registry have the same name, after any sequence
\* of add_node, update_node and remove_node calls, successful or not.
C24_UniqueNames ==
    \A i, j \in 1..Len(nodes) : nodes[i].name = nodes[j].name => i = j

\* a node was renamed beside another node
C24_Witness ==
    /\ registry_op # None
    /\ registry_op.op = "update_node"
    /\ registry_op.outcome = "ok"
    /\ registry_op.new_name # registry_op.name
    /\ Len(nodes) = 2

(***************************************************************************)
(* distributed.py: query_chairman attempt by attempt, while nodes may be   *)
(* removed from the registry.                                              *)
(***************************************************************************)
\* a registry whose only node has no model and names no arbiter model
Unstocked == << LLMNode("n1", "h1", <<>>, TRUE, NoModel, TRUE) >>

ArbiterClusters ==
    { [nodes |-> r, node_health |-> << >>] :
        r \in {TwoTags, OneEnabled, NoneEnabled, Crossed, Unstocked} }

\* the arbiter is left to the router
RoutedChairman(chairman_config) == NoUrl

\* node_url=chairman_config.get("node_url")
ChairmanUrl(chairman_config) == chairman_config.node_url

\* query_chairman is called: the arbiter is resolved and, if there is one,
\* query_model is called for it
ChairmanStart(t) ==
    /\ tasks[t].pc = "idle"
    /\ arbiter' = [config |-> get_chairman_config, task |-> t]
    /\ IF get_chairman_config = None
       THEN tasks' = [tasks EXCEPT ![t] = [@ EXCEPT !.pc = "returned", !.result = None]]
       ELSE StartCall(t, get_chairman_config.model, ChairmanUrl(get_chairman_config))
    /\ UNCHANGED <<nodes, node_health, runvars, cachevars, fanout, healthvars, registry_op,
                   applied, roundvars>>

InitArbiter == InitWith(ArbiterClusters) /\ conversation = "code"

NextArbiter ==
    \/ RemoveNode
    \/ \E t \in 1..MaxTasks :
        \/ ChairmanStart(t)
        \/ AttemptSucceeds(t)
        \/ AttemptFails(t)
        \/ Wake(t)

SpecArbiter == InitArbiter /\ [][NextArbiter]_vars

\* C22: a query_chairman call sends its chat requests only for the model and
\* to the node that get_chairman_config gave when the call was made, whatever
\* the registry became since; with no arbiter resolvable it returns none
\* having sent nothing; otherwise it returns none exactly when all
\* MAX_RETRIES+1 attempts failed.
C22_ArbiterDispatch ==
    arbiter # None =>
        LET call == tasks[arbiter.task]
        IN  IF arbiter.config = None
            THEN call.pc = "returned" /\ call.result = None /\ call.events = <<>>
            ELSE /\ call.model = arbiter.config.model
                 /\ call.to = arbiter.config.node_url
                 /\ Chats(call) >= 1
                 /\ BoundedRetries(call)
                 /\ call.pc = "returned" =>
                       (call.result = None
                          <=> Count(call.events, "fail") = MAX_RETRIES + 1)

\* the arbiter's node was removed while the call was retrying; the call ran
\* out of retries on the node resolved when it was made
C22_Witness ==
    /\ arbiter # None
    /\ arbiter.config # None
    /\ get_chairman_config # arbiter.config
    /\ tasks[arbiter.task].pc = "returned"
    /\ tasks[arbiter.task].result = None
    /\ tasks[arbiter.task].events = EventsOf(MAX_RETRIES + 1, FALSE)
    /\ tasks[arbiter.task].to = arbiter.config.node_url

(***************************************************************************)
(* code_council.py: the two text functions applied to drawn inputs.        *)
(***************************************************************************)
MaxLines == 3

\* the lines a review is made of
ReviewLines ==
    { [k |-> "hdr", l |-> "A"], [k |-> "hdr", l |-> "B"], [k |-> "hdr", l |-> "C"],
      [k |-> "cat", c |-> "bugs", t |-> "none"],
      [k |-> "score", n |-> 7],
      [k |-> "score", n |-> 0, digits |-> MAX_STR_DIGITS + 1],
      [k |-> "marker"],
      [k |-> "rank", l |-> "A"],
      [k |-> "prose"] }

ReviewTexts == UNION { [1..n -> ReviewLines] : n \in 0..MaxLines }

\* the lines a model's content is made of
ContentLines == {"", FENCE, FENCE_PY, "x", "y"}

Contents == UNION { [1..n -> ContentLines] : n \in 0..MaxLines }

InitText == InitWith(EmptyRegistry) /\ conversation = "code"

\* a review text arrives for a round of n submissions
DrawReview ==
    /\ applied = None
    /\ \E review_text \in ReviewTexts, n \in 1..2 :
          applied' = [fn |-> "parse_structured_review", pc |-> "input",
                      input |-> review_text, labels |-> SubSeq(LABELS, 1, n),
                      output |-> None]
    /\ UNCHANGED <<nodes, node_health, runvars, cachevars, tasks, fanout, healthvars,
                   registryvars, roundvars>>

\* a model's content arrives
DrawContent ==
    /\ applied = None
    /\ \E content \in Contents :
          applied' = [fn |-> "strip", pc |-> "input", input |-> content,
                      labels |-> <<>>, output |-> None]
    /\ UNCHANGED <<nodes, node_health, runvars, cachevars, tasks, fanout, healthvars,
                   registryvars, roundvars>>

ParseReview ==
    /\ applied # None
    /\ applied.pc = "input"
    /\ applied.fn = "parse_structured_review"
    /\ applied' = [applied EXCEPT !.pc = "done",
                     !.output = parse_structured_review(applied.input, applied.labels)]
    /\ UNCHANGED <<nodes, node_health, runvars, cachevars, tasks, fanout, healthvars,
                   registryvars, roundvars>>

StripContent ==
    /\ applied # None
    /\ applied.pc = "input"
    /\ applied.fn \in {"strip", "strip again"}
    /\ applied' = [applied EXCEPT !.pc = "done", !.output = StripFences(applied.input)]
    /\ UNCHANGED <<nodes, node_health, runvars, cachevars, tasks, fanout, healthvars,
                   registryvars, roundvars>>

\* the stripped content is stripped again
StripAgain ==
    /\ applied # None
    /\ applied.pc = "done"
    /\ applied.fn = "strip"
    /\ applied' = [applied EXCEPT !.fn = "strip again", !.pc = "input",
                     !.input = applied.output, !.labels = applied.input,
                     !.output = None]
    /\ UNCHANGED <<nodes, node_health, runvars, cachevars, tasks, fanout, healthvars,
                   registryvars, roundvars>>

MaxReplyLines == 4

\* the lines an arbiter reply is made of
SynthesisLines == {FINAL_CODE, FINAL_TESTS, "s", FENCE}

SynthesisTexts == UNION { [1..n -> SynthesisLines] : n \in 0..MaxReplyLines }

\* the arbiter's reply arrives
DrawSynthesis ==
    /\ applied = None
    /\ \E synthesis_text \in SynthesisTexts :
          applied' = [fn |-> "synthesize_final_code", pc |-> "input",
                      input |-> synthesis_text, labels |-> <<>>, output |-> None]
    /\ UNCHANGED <<nodes, node_health, runvars, cachevars, tasks, fanout, healthvars,
                   registryvars, roundvars>>

\* synthesize_final_code parses and cleans the reply
ParseArbiterReply ==
    /\ applied # None
    /\ applied.pc = "input"
    /\ applied.fn = "synthesize_final_code"
    /\ applied' = [applied EXCEPT !.pc = "done",
                     !.output = synthesize_final_code(<<>>, <<>>,
                                   Normalized(Reply(applied.input), "n1", MA))]
    /\ UNCHANGED <<nodes, node_health, runvars, cachevars, tasks, fanout, healthvars,
                   registryvars, roundvars>>

NextText ==
    \/ DrawReview \/ DrawContent \/ DrawSynthesis
    \/ ParseReview \/ StripContent \/ StripAgain \/ ParseArbiterReply

SpecText == InitText /\ [][NextText]_vars

Parsed == applied # None /\ applied.fn = "parse_structured_review" /\ applied.pc = "done"

HasLine(text, k) == \E i \in 1..Len(text) : text[i].k = k

\* what the claim promises of a parse that returned
C27_BestEffort ==
    LET out == applied.output
        text == applied.input
    IN  /\ DOMAIN out.submissions \subseteq Range(applied.labels)
        /\ \A l \in Range(applied.labels) :
              (~\E i \in 1..Len(text) : text[i].k = "hdr" /\ text[i].l = l)
                  => l \notin DOMAIN out.submissions
        /\ \A l \in DOMAIN out.submissions :
              /\ \A c \in Range(CATEGORIES) :
                    (~\E i \in 1..Len(text) : text[i].k = "cat" /\ text[i].c = c)
                        => c \notin DOMAIN out.submissions[l].categories
              /\ ~HasLine(text, "score") => out.submissions[l].score = NoScore
        /\ ~HasLine(text, "marker") => out.ranking = <<>>

\* C27: parse_structured_review raises on no review text; a label without
\* header is left out, a category or score that is not written is left out
\* or null, the ranking is empty without the marker, and the parsed labels are
\* among the round's labels.
C27_NeverRaises ==
    Parsed => (applied.output # ValueError /\ C27_BestEffort)

\* the same, for the parses that return
C27_ReturnedBestEffort ==
    (Parsed /\ applied.output # ValueError) => C27_BestEffort

Stripped(fn) == applied # None /\ applied.fn = fn /\ applied.pc = "done"

IsFenceLine(line) == line \in {FENCE, FENCE_PY}

\* the content has an opening fence on its first line or a closing fence on
\* its last line, once trimmed
Wrapped(content) ==
    LET t == Strip(content)
    IN  t # <<>> /\ (IsFenceLine(t[1]) \/ t[Len(t)] = FENCE)

\* C28: content that has no opening fence on its first line and no closing
\* fence on its last line comes back unchanged apart from the trimming,
\* fence lines in its interior included, and stripping the result again
\* changes nothing.
C28_OnlyWrapper ==
    /\ (Stripped("strip") /\ ~Wrapped(applied.input))
          => applied.output = Strip(applied.input)
    /\ Stripped("strip again") => applied.output = applied.input

\* the part of C28 about stripping twice
C28_Idempotent == Stripped("strip again") => applied.output = applied.input

TestRequestsSent == {r \in sent : r.stage = "test_generation"}

\* C25: the test generation pass comes right after the final review (the one
\* that follows the last refinement) and right before synthesis, and every
\* test request carries the code of the first submission of the final
\* snapshot, whatever the reviewers ranked first.
C25_TestsTargetFirst ==
    /\ \A k \in 1..Len(trace) :
          /\ trace[k] = "test_generation" =>
                /\ k > 1
                /\ trace[k - 1] = "review"
                /\ Count(SubSeq(trace, 1, k), "refinement") = max_iterations
                /\ Count(SubSeq(trace, 1, k), "review") = max_iterations + 1
                /\ Count(SubSeq(trace, 1, k), "synthesis") = 0
          /\ trace[k] = "synthesis" => (k > 1 /\ trace[k - 1] = "test_generation")
    /\ \A r \in TestRequestsSent :
          /\ iterations # <<>>
          /\ iterations[Len(iterations)].code_submissions # <<>>
          /\ r.code = iterations[Len(iterations)].code_submissions[1].code
          /\ r.code = current_submissions[1].code

\* two submissions with different code, every reviewer ranked B first, and
\* the tests were requested for A's code; synthesis followed
C25_Witness ==
    /\ pc = "DONE"
    /\ Len(current_submissions) = 2
    /\ current_submissions[1].code # current_submissions[2].code
    /\ reviews # <<>>
    /\ \A i \in 1..Len(reviews) : reviews[i].parsed_review.ranking[1] = "B"
    /\ TestRequestsSent # {}
    /\ \A r \in TestRequestsSent : r.code = current_submissions[1].code
    /\ Count(trace, "synthesis") = 1

\* the last answer of the router is the one the present registry and health
\* records give for its model
StillCurrent == routed # None /\ routed.node = find_node_for_model(routed.model)

RoundClusters ==
    { [nodes |-> r, node_health |-> << >>] : r \in {TwoTags, Crossed, OneEnabled} }

\* the submissions of a run: the models of the council that answered the
\* generation pass, in the council's order
SubmissionModels ==
    LET all == [i \in 1..Len(get_all_council_models) |-> get_all_council_models[i].model]
    IN  { SelectIdx(all, keep, 1) : keep \in (SUBSET (1..Len(all))) \ {{}} }

\* the refinement loop is entered while reviews are still being gathered
ReviewsUnderWay == fanout.pc \in {"gathering", "returned"}

\* await review_code_structured(...): query_models_parallel has returned
ReviewsResolved == fanout.pc = "returned"

\* the refinement loop of the round is over
RoundRefined ==
    /\ round.pc = "refining"
    /\ round.i = Len(round.submissions)
    /\ refines[round.i].pc = "returned"

\* review_code_structured is called: the reviews of all council models are
\* requested
ReviewStart ==
    /\ round.pc = "idle" \/ RoundRefined
    /\ Len(get_all_council_models) <= MaxTasks
    /\ \E submissions \in SubmissionModels :
         /\ round.pc # "idle" => submissions = round.submissions
         /\ round' = [pc |-> "reviewing", num |-> round.num + 1,
                      submissions |-> submissions, i |-> 0]
    /\ fanout' = [pc |-> "gathering", models_config |-> get_all_council_models,
                  responses |-> <<>>]
    /\ tasks' = [t \in 1..MaxTasks |-> IdleTask]
    /\ UNCHANGED <<nodes, node_health, runvars, cachevars, healthvars, registryvars, applied,
                   refines>>

\* review_code_structured returns: the loop turns to the refinements, or the
\* final review is over
ReviewReturn ==
    /\ round.pc = "reviewing"
    /\ ReviewsResolved
    /\ round' = [round EXCEPT !.pc = IF round.num > MaxIterations THEN "done"
                                     ELSE "refining"]
    /\ refines' = [i \in 1..MaxTasks |-> IdleTask]
    /\ UNCHANGED <<nodes, node_health, runvars, cachevars, tasks, fanout, healthvars,
                   registryvars, applied>>

\* refined = await refine_code(submission, ...): the loop reaches submission
\* i once the call for the one before has returned
RefineIssue(i) ==
    /\ round.pc = "refining"
    /\ i <= Len(round.submissions)
    /\ round.i = i - 1
    /\ i > 1 => refines[i - 1].pc = "returned"
    /\ refines' = [refines EXCEPT ![i] = Started(IdleTask, round.submissions[i], NoUrl)]
    /\ round' = [round EXCEPT !.i = i]
    /\ UNCHANGED <<nodes, node_health, runvars, cachevars, tasks, fanout, healthvars,
                   registryvars, applied>>

RefineAnswered(i) ==
    /\ refines[i].pc = "chat"
    /\ \E content \in ChatContents :
         refines' = [refines EXCEPT ![i] =
            [@ EXCEPT !.pc = "returned",
                      !.events = Append(@, "ok"),
                      !.result = Normalized(Reply(content), refines[i].node_name,
                                            refines[i].model)]]
    /\ UNCHANGED <<nodes, node_health, runvars, cachevars, tasks, fanout, healthvars,
                   registryvars, applied, round>>

RefineFailed(i) ==
    /\ refines[i].pc = "chat"
    /\ LET failed == [refines[i] EXCEPT !.events = Append(@, "fail")]
       IN  refines' = [refines EXCEPT ![i] =
              IF SleepsAfter(failed.attempt)
              THEN [failed EXCEPT !.pc = "sleep", !.events = Append(@, "sleep")]
              ELSE NextAttempt(failed)]
    /\ UNCHANGED <<nodes, node_health, runvars, cachevars, tasks, fanout, healthvars,
                   registryvars, applied, round>>

RefineWake(i) ==
    /\ refines[i].pc = "sleep"
    /\ refines' = [refines EXCEPT ![i] = NextAttempt(refines[i])]
    /\ UNCHANGED <<nodes, node_health, runvars, cachevars, tasks, fanout, healthvars,
                   registryvars, applied, round>>

InitRound == InitWith(RoundClusters) /\ conversation = "code"

NextRound ==
    \/ ReviewStart
    \/ ReviewReturn
    \/ Gather
    \/ \E t \in 1..MaxTasks :
        \/ TaskStart(t)
        \/ AttemptSucceeds(t)
        \/ AttemptFails(t)
        \/ Wake(t)
        \/ RefineIssue(t)
        \/ RefineAnswered(t)
        \/ RefineFailed(t)
        \/ RefineWake(t)

SpecRound == InitRound /\ [][NextRound]_vars

\* a chat request of a review task is sent in this step
ReviewRequestIssued == \E t \in 1..MaxTasks : Chats(tasks'[t]) > Chats(tasks[t])

\* a chat request of a refine_code call is sent in this step
RefineRequestIssued == \E i \in 1..MaxTasks : Chats(refines'[i]) > Chats(refines[i])

\* C29: when a refinement request is sent, every review task of the round has
\* finished (answered, out of retries, or without a node); when a review
\* request of a later round is sent, every refinement call of the round
\* before has returned.
C29_Barriers ==
    [][ /\ RefineRequestIssued =>
              /\ fanout.pc = "returned"
              /\ \A t \in 1..Len(fanout.models_config) :
                    tasks[t].pc \in {"returned", "raised"}
        /\ ReviewRequestIssued =>
              /\ \A i \in 1..MaxTasks : refines[i].pc \in {"idle", "returned"}
              /\ round.num > 1 =>
                    \A i \in 1..Len(round.submissions) : refines[i].pc = "returned"
      ]_vars

\* a review request of round 2 is in flight; of the two refinements of round
\* 1 the first ran out of retries and the second was answered
C29_Witness ==
    /\ round.pc = "reviewing"
    /\ round.num = 2
    /\ Len(round.submissions) = 2
    /\ \E t \in 1..MaxTasks : tasks[t].pc = "chat"
    /\ refines[1].pc = "returned"
    /\ refines[1].events = EventsOf(MAX_RETRIES + 1, FALSE)
    /\ refines[2].pc = "returned"
    /\ refines[2].result # None

\* C30: within a refinement pass no refinement waits for a sibling: while
\* the request for one submission is unresolved, the call for a submission
\* whose request has not been sent yet can be made.
C30_IssuedConcurrently ==
    \A i \in 1..MaxTasks :
        (/\ round.pc = "refining"
         /\ i <= Len(round.submissions)
         /\ refines[i].pc = "idle"
         /\ \E j \in 1..MaxTasks : j # i /\ refines[j].pc \in {"chat", "sleep"})
            => ENABLED RefineIssue(i)

\* what the loop does instead: at most one refinement request is unresolved
\* at any time
C30_OneAtATime ==
    Cardinality({i \in 1..MaxTasks : refines[i].pc \in {"chat", "sleep"}}) <= 1

(***************************************************************************)
(* Properties of the pipeline's dispatch, of synthesis and of the ranking. *)
(***************************************************************************)
\* the address belongs to a node whose health record says unhealthy
MarkedUnhealthy(url) ==
    \E i \in 1..Len(nodes) :
        /\ Url(nodes[i]) = url
        /\ nodes[i].name \in DOMAIN node_health
        /\ ~node_health[nodes[i].name].is_healthy

\* C31: no chat request of the pipeline (generation, review, test generation,
\* refinement, synthesis) is sent to a node that its health record marks
\* unhealthy.
C31_NoDispatchToUnhealthy ==
    \A r \in sent : ~MarkedUnhealthy(r.to)

\* the part of C31 that the router gives: the refinement requests
C31_RoutedAvoidUnhealthy ==
    \A r \in sent : r.stage = "refinement" => ~MarkedUnhealthy(r.to)

\* C32: a run that returns with a final submission that is not empty returns
\* final code that is not empty, whatever the arbiter replied.
C32_FinalCodeNonEmpty ==
    (/\ pc = "DONE"
     /\ \E i \in 1..Len(current_submissions) : current_submissions[i].code # <<>>)
        => result.final_code # <<>>

Synthesized ==
    applied # None /\ applied.fn = "synthesize_final_code" /\ applied.pc = "done"

CodeMarkers(text) == {i \in 1..Len(text) : text[i] = FINAL_CODE}

\* the first test marker after position i, 0 if there is none
TestMarkerAfter(text, i) ==
    LET later == {j \in (i + 1)..Len(text) : text[j] = FINAL_TESTS}
    IN  IF later = {} THEN 0 ELSE Min(later)

\* the first marker of either kind after position i, or the end of the text
NextMarker(text, i) ==
    Min({j \in (i + 1)..Len(text) : text[j] \in {FINAL_CODE, FINAL_TESTS}}
        \cup {Len(text) + 1})

\* C33: when the reply holds the code marker and after it the test marker,
\* the final code is the text between the two and the final tests are all the
\* text after the test marker; when it holds only the code marker, the final
\* code is all the text after it and the final tests are empty (both cleaned
\* of fences and trimmed).
C33_SplitOnMarkers ==
    (Synthesized /\ CodeMarkers(applied.input) # {}) =>
        LET text == applied.input
            first == Min(CodeMarkers(text))
            second == TestMarkerAfter(text, first)
        IN  IF second # 0
            THEN /\ applied.output.code = StripFences(SubSeq(text, first + 1, second - 1))
                 /\ applied.output.tests = StripFences(SubSeq(text, second + 1, Len(text)))
            ELSE /\ applied.output.code = StripFences(SubSeq(text, first + 1, Len(text)))
                 /\ applied.output.tests = <<>>

\* C33, amended: the final code is the text after the first code marker up
\* to the next marker of either kind; when that next marker is the test
\* marker, the final tests are the text after it up to the next marker of
\* either kind, and otherwise they are empty.
C33_SplitUpToNextMarker ==
    (Synthesized /\ CodeMarkers(applied.input) # {}) =>
        LET text == applied.input
            first == Min(CodeMarkers(text))
            second == NextMarker(text, first)
        IN  /\ applied.output.code = StripFences(SubSeq(text, first + 1, second - 1))
            /\ applied.output.tests =
                  IF second <= Len(text) /\ text[second] = FINAL_TESTS
                  THEN StripFences(SubSeq(text, second + 1, NextMarker(text, second) - 1))
                  ELSE <<>>

\* a reply with each marker once: code and tests are the two sections
C33_Witness ==
    /\ Synthesized
    /\ applied.input = <<FINAL_CODE, "s", FINAL_TESTS, "s">>
    /\ applied.output.code = <<"s">>
    /\ applied.output.tests = <<"s">>

\* C34: a parsed ranking holds only labels of the round's submissions, each
\* at most once.
C34_RankingWithinLabels ==
    (Parsed /\ applied.output # ValueError) =>
        LET ranking == applied.output.ranking
        IN  /\ Range(ranking) \subseteq Range(applied.labels)
            /\ \A i, j \in 1..Len(ranking) : ranking[i] = ranking[j] => i = j

\* the part of C34 about the order: the ranking lists, in the order written,
\* the submissions mentioned after the first ranking marker (up to the next)
C34_RankingInOrder ==
    (Parsed /\ applied.output # ValueError /\ HasLine(applied.input, "marker")) =>
        LET text == applied.input
            first == Min({i \in 1..Len(text) : text[i].k = "marker"})
            later == {j \in (first + 1)..Len(text) : text[j].k = "marker"}
            end == IF later = {} THEN Len(text) ELSE Min(later) - 1
            mentions == SelectIdx(text, {j \in (first + 1)..end :
                                            text[j].k \in {"hdr", "rank"}}, 1)
        IN  applied.output.ranking = [i \in 1..Len(mentions) |-> mentions[i].l]

(***************************************************************************)
(* distributed.py: the HTTP clients cached per node name, while            *)
(* update_node changes the address or the key of a node.                   *)
(***************************************************************************)
CacheClusters ==
    { [nodes |-> r, node_health |-> << >>] : r \in {SameModelTwice, Crossed} }

\* the addresses and keys update_node is called with
CacheHosts == {"h1", "h2", "h3"}

CacheKeys == {NoKey, "k"}

\* httpx.AsyncClient(base_url=node.url, headers={"X-API-Key": node.api_key})
Client(node) == [base_url |-> Url(node), api_key |-> node.api_key]

\* _get_client_for_node: the client cached under the node's name, created
\* from the node when there is none
get_client_for_node(clients, node) ==
    IF node.name \in DOMAIN clients
    THEN [clients |-> clients, client |-> clients[node.name]]
    ELSE [clients |-> [n \in DOMAIN clients \cup {node.name} |->
                          IF n = node.name THEN Client(node) ELSE clients[n]],
          client |-> Client(node)]

\* what is recorded of a request sent through the node's client
Dispatch(kind, node, client) ==
    [kind |-> kind, node |-> node, to |-> client.base_url, api_key |-> client.api_key]

\* a routed query: find_node_for_model resolves node and client, the chat
\* request is posted through the client
RoutedChat ==
    /\ \E model \in {MA, MB} :
         LET r == find_node_for_model(model)
             g == get_client_for_node(http_clients, r)
         IN  /\ r # None
             /\ http_clients' = g.clients
             /\ dispatched' = Dispatch("chat", r, g.client)
    /\ UNCHANGED <<nodes, node_health, runvars, tasks, fanout, healthvars,
                   registryvars, applied, roundvars>>

\* check_node_health(node) up to its await: the health request is sent
\* through the node's client
ProbeRequest ==
    /\ \E i \in 1..Len(get_enabled_nodes) :
         LET g == get_client_for_node(http_clients, get_enabled_nodes[i])
         IN  /\ http_clients' = g.clients
             /\ dispatched' = Dispatch("health", get_enabled_nodes[i], g.client)
    /\ UNCHANGED <<nodes, node_health, runvars, tasks, fanout, healthvars,
                   registryvars, applied, roundvars>>

\* update_node(name, node) with the same name and another address or key
UpdateNodeAddress ==
    /\ \E i \in 1..Len(nodes), host \in CacheHosts, api_key \in CacheKeys :
         /\ <<host, api_key>> # <<nodes[i].host, nodes[i].api_key>>
         /\ nodes' = update_node(nodes, nodes[i].name,
                        [nodes[i] EXCEPT !.host = host, !.api_key = api_key]).nodes
    /\ UNCHANGED <<node_health, runvars, tasks, fanout, healthvars, registryvars,
                   applied, roundvars, cachevars>>

InitCache == InitWith(CacheClusters) /\ conversation = "code"

NextCache == RoutedChat \/ ProbeRequest \/ UpdateNodeAddress

SpecCache == InitCache /\ [][NextCache]_vars

\* C35: every routed query and every health probe is sent to the address the
\* node has in the registry when the request is made, with the key it has
\* then, also after update_node changed them.
C35_CurrentAddress ==
    dispatched # None =>
        /\ dispatched.to = Url(dispatched.node)
        /\ dispatched.api_key = dispatched.node.api_key

(***************************************************************************)
(* distributed.py: check_all_nodes_health calls that overlap (the startup  *)
(* check and the status endpoints run on one event loop).                  *)
(***************************************************************************)
OverlapClusters ==
    { [nodes |-> OneEnabled, node_health |-> << >>],
      [nodes |-> OneEnabled, node_health |-> [n \in {"n2"} |-> FailedProbe(n)]] }

\* a check_all_nodes_health call made whether or not another is running
OverlappingBatchStart(b) ==
    /\ b \in 1..MaxBatches
    /\ StartBatch(b)

InitOverlap == InitWith(OverlapClusters) /\ conversation = "code"

NextOverlap ==
    \E b \in 1..MaxBatches :
        \/ OverlappingBatchStart(b)
        \/ BatchReturn(b)
        \/ \E i \in 1..Len(nodes) : ProbeSucceeds(b, i) \/ ProbeFails(b, i)

SpecOverlap == InitOverlap /\ [][NextOverlap]_vars

\* C36: once every probe has completed, the consecutive-failure count of each
\* node is the number of its probes that failed since its last answered
\* probe, also when the probes overlapped and the node had no record before.
C36_NoLostFailure ==
    (\A b \in 1..MaxBatches : batches[b].pc # "running") =>
        \A n \in DOMAIN node_health : node_health[n].consecutive_failures = streak[n]

\* the part of C36 that holds: probes that found the node's record share it,
\* and their failures are all counted
C36_SharedRecordCounts ==
    (/\ \A b \in 1..MaxBatches : batches[b].pc # "running"
     /\ \A b \in 1..MaxBatches : \A i \in DOMAIN batches[b].probes :
           batches[b].probes[i].health.oid = 0)
        => \A n \in DOMAIN node_health : node_health[n].consecutive_failures = streak[n]

(***************************************************************************)
(* main.py: generate_code_stream, the streaming endpoint.  Its generator   *)
(* calls the stages itself; trace holds the passes, result the last event. *)
(***************************************************************************)
Streaming == http = "streaming" /\ pc \notin {"DONE", "ALL_FAILED", "RAISED"}

\* the last event of the stream
ErrorEvent(message) == [type |-> "error", message |-> message]

CompleteEvent == [type |-> "complete"]

\* reviews = await review_code_structured(...): the returned pair itself, a
\* list and a dict, is bound to reviews
ReviewsPair(rv) ==
    << [py |-> "list", value |-> rv.reviews],
       [py |-> "dict", value |-> rv.label_to_model] >>

\* refine_code's loop "for review in reviews: review.get(...)": a list has
\* no get
FeedbackRaises(revs) == \E i \in 1..Len(revs) : revs[i].py # "dict"

\* event_generator up to the end of stage 1
StreamGenerate ==
    /\ http = "idle"
    /\ conversation = "code"
    /\ pc = "INIT"
    /\ \E m \in 0..MaxIterations :
       \E replies \in [1..Len(get_all_council_models) -> GenerationReplies] :
         LET code_submissions ==
                generate_initial_code(query_models_parallel(get_all_council_models, replies))
         IN  /\ max_iterations' = m
             /\ sent' = sent \cup FanOutRequests("generation", get_all_council_models, replies)
             /\ IF AllFailed(code_submissions)
                THEN /\ result' = ErrorEvent("All models failed to generate code")
                     /\ pc' = "ALL_FAILED"
                     /\ http' = "streamed"
                     /\ UNCHANGED <<iterations, current_submissions, iteration_num>>
                ELSE /\ iterations' = << [iteration |-> 0,
                                          code_submissions |-> code_submissions,
                                          reviews |-> <<>>] >>
                     /\ current_submissions' = code_submissions
                     /\ iteration_num' = 1
                     /\ pc' = "GENERATED"
                     /\ http' = "streaming"
                     /\ UNCHANGED result
    /\ messages' = Append(messages, "user")
    /\ trace' = Append(trace, "generation")
    /\ UNCHANGED <<nodes, node_health, clientvars, reviews, refined_submissions, tests,
                   final_result, conversation>>

\* a review pass of the stream: the pair is stored in the log as the reviews
StreamReview ==
    /\ Streaming
    /\ pc \in {"GENERATED", "REFINED"}
    /\ \E replies \in [1..Len(get_all_council_models) -> ReviewReplies] :
         LET rv == review_code_structured(current_submissions,
                       query_models_parallel(get_all_council_models, replies))
         IN  /\ reviews' = ReviewsPair(rv)
             /\ iterations' = [iterations EXCEPT ![Len(iterations)].reviews = ReviewsPair(rv)]
             /\ sent' = sent \cup FanOutRequests("review", get_all_council_models, replies)
    /\ pc' = IF InLoop THEN "REVIEWED" ELSE "FINAL_REVIEWED"
    /\ trace' = Append(trace, "review")
    /\ UNCHANGED <<nodes, node_health, clientvars, max_iterations, iteration_num,
                   current_submissions, refined_submissions, tests, final_result,
                   result, conversation, http, messages>>

\* the refinement of the first submission: refine_code raises on the pair
\* before any request, and the generator's except sends the error event
StreamRefine ==
    /\ Streaming
    /\ pc = "REVIEWED"
    /\ current_submissions # <<>>
    /\ FeedbackRaises(reviews)
    /\ result' = ErrorEvent("'list' object has no attribute 'get'")
    /\ pc' = "RAISED"
    /\ http' = "streamed"
    /\ trace' = Append(trace, "refinement")
    /\ UNCHANGED <<nodes, node_health, clientvars, max_iterations, iteration_num,
                   current_submissions, reviews, refined_submissions, iterations,
                   tests, final_result, conversation, messages, sent>>

StreamGenerateTests ==
    /\ Streaming
    /\ pc = "FINAL_REVIEWED"
    /\ \E replies \in [1..Len(get_all_council_models) -> TestReplies] :
         /\ tests' = generate_tests(query_models_parallel(get_all_council_models, replies))
         /\ sent' = sent \cup TestRequests(BestCode(current_submissions),
                                           get_all_council_models, replies)
    /\ pc' = "TESTS_GENERATED"
    /\ trace' = Append(trace, "test_generation")
    /\ UNCHANGED <<nodes, node_health, clientvars, max_iterations, iteration_num,
                   current_submissions, reviews, refined_submissions, iterations,
                   final_result, result, conversation, http, messages>>

StreamSynthesize ==
    /\ Streaming
    /\ pc = "TESTS_GENERATED"
    /\ \E reply \in ArbiterReplies :
         LET q == query_chairman(reply)
         IN  /\ final_result' = synthesize_final_code(current_submissions, tests, q.result)
             /\ sent' = sent \cup
                    (IF q.to = NoUrl THEN {}
                     ELSE {[stage |-> "synthesis", model |-> get_chairman_config.model,
                            to |-> q.to, answered |-> reply # None]})
    /\ pc' = "SYNTHESIZED"
    /\ trace' = Append(trace, "synthesis")
    /\ UNCHANGED <<nodes, node_health, clientvars, max_iterations, iteration_num,
                   current_submissions, reviews, refined_submissions, iterations,
                   tests, result, conversation, http, messages>>

\* storage.add_code_generation(...) and the completion event
StreamComplete ==
    /\ Streaming
    /\ pc = "SYNTHESIZED"
    /\ result' = CompleteEvent
    /\ pc' = "DONE"
    /\ http' = "streamed"
    /\ messages' = Append(messages, "assistant")
    /\ UNCHANGED <<nodes, node_health, clientvars, max_iterations, iteration_num,
                   current_submissions, reviews, refined_submissions, iterations,
                   tests, final_result, conversation, trace, sent>>

NextStream ==
    \/ StreamGenerate
    \/ StreamReview
    \/ StreamRefine
    \/ StreamGenerateTests
    \/ StreamSynthesize
    \/ StreamComplete

SpecStream == Init /\ [][NextStream]_vars

\* the passes of a run with bound m, as the stream would make them
StagesOfRun(m) == SubSeq(ExpectedTrace(m), 1, Len(ExpectedTrace(m)) - 1)

\* C37: a stream whose generation yields a submission makes the passes
\* run_code_council makes, keeps the iteration log run_code_council keeps
\* (snapshots 0..M, each reviewed snapshot with its reviews and its label
\* mapping) and ends with the complete event.
C37_StreamAsRun ==
    (http = "streamed" /\ iterations # <<>>) =>
        /\ result = CompleteEvent
        /\ trace = StagesOfRun(max_iterations)
        /\ Len(iterations) = max_iterations + 1
        /\ \A k \in 1..Len(iterations) :
              iterations[k].reviews # <<>> => "label_to_model" \in DOMAIN iterations[k]

\* the part of C37 that holds: a stream without refinement rounds ends with
\* the complete event after the passes of the run
C37_CompleteWithoutRounds ==
    (http = "streamed" /\ iterations # <<>> /\ max_iterations = 0) =>
        /\ result = CompleteEvent
        /\ trace = StagesOfRun(0)

(***************************************************************************)
(* Queries while the health prober runs: the calls of query_model and      *)
(* query_models_parallel interleaved with one check_all_nodes_health whose *)
(* probes fail.                                                            *)
(***************************************************************************)
ProbedClusters == { [nodes |-> SameModelTwice, node_health |-> << >>] }

InitProbed == InitWith(ProbedClusters) /\ conversation = "code"

\* a call that has a node and has not returned
Attempting(task) == task.pc \in {"chat", "sleep"}

\* query_model is called while no other call is under way
LoneQueryStart(t) ==
    /\ \A u \in 1..MaxTasks : ~Attempting(tasks[u])
    /\ QueryStart(t)

NextProbed ==
    \/ FanOutStart
    \/ Gather
    \/ \E t \in 1..MaxTasks :
        \/ LoneQueryStart(t)
        \/ TaskStart(t)
        \/ AttemptSucceeds(t)
        \/ AttemptFails(t)
        \/ Wake(t)
    \/ BatchStart(1)
    \/ BatchReturn(1)
    \/ \E i \in 1..Len(nodes) : ProbeFails(1, i)

SpecProbed == InitProbed /\ [][NextProbed]_vars

\* C38: a step of a query (its start, an attempt answered or failed, the end
\* of a delay, the start or the gather of a parallel query) leaves the
\* registry and every health record as they were, and a call that goes on
\* to another attempt keeps the node it resolved before its first attempt,
\* whatever the prober has recorded meanwhile.
C38_QueriesReadOnly ==
    [][ /\ (tasks' # tasks \/ fanout' # fanout) =>
              (nodes' = nodes /\ node_health' = node_health)
        /\ \A t \in 1..MaxTasks :
              (Attempting(tasks[t]) /\ Attempting(tasks'[t])) =>
                  /\ tasks'[t].to = tasks[t].to
                  /\ tasks'[t].node_name = tasks[t].node_name ]_vars

\* a routed call at its second or third attempt whose node another call of
\* the router would no longer choose
C38_Witness ==
    \E t \in 1..MaxTasks :
        /\ tasks[t].pc = "chat"
        /\ tasks[t].attempt >= 1
        /\ tasks[t].node_url = NoUrl
        /\ find_node_for_model(tasks[t].model) # None
        /\ Url(find_node_for_model(tasks[t].model)) # tasks[t].to

(***************************************************************************)
(* The registry machine started on a configuration, as LLM_COUNCIL_NODES   *)
(* gives one, whose arbiter node names a model outside its model list.     *)
(***************************************************************************)
Borrowed == << LLMNode("n1", "h1", <<MA>>, TRUE, MB, TRUE) >>

InitBorrowed ==
    InitWith({ [nodes |-> Borrowed, node_health |-> << >>] }) /\ conversation = "code"

SpecBorrowed == InitBorrowed /\ [][NextRegistry]_vars

\* the registry's node of that name
NodeNamed(name) == nodes[CHOOSE i \in 1..Len(nodes) : nodes[i].name = name]

\* get_chairman_config has returned an arbiter and the registry is as it was
ArbiterReturned ==
    arbiter # None /\ arbiter.config # None /\ arbiter.config = get_chairman_config

\* C39: whenever get_chairman_config returns an arbiter, its node is in the
\* registry and enabled and its model is one of the models configured on
\* that node.
C39_ArbiterModelOnNode ==
    ArbiterReturned =>
        /\ \E i \in 1..Len(nodes) : nodes[i].name = get_chairman_config.node_name
        /\ NodeNamed(get_chairman_config.node_name).enabled
        /\ get_chairman_config.model \in Range(NodeNamed(get_chairman_config.node_name).models)

\* the part of C39 that holds: the arbiter's node is an enabled node of the
\* registry, and an arbiter found by the fallback is a model of its node
C39_ArbiterNodeEnabled ==
    ArbiterReturned =>
        /\ \E i \in 1..Len(nodes) : nodes[i].name = get_chairman_config.node_name
        /\ NodeNamed(get_chairman_config.node_name).enabled
        /\ (\A i \in 1..Len(nodes) :
                nodes[i].enabled => ~(nodes[i].is_chairman /\ nodes[i].chairman_model # NoModel))
           => get_chairman_config.model \in Range(NodeNamed(get_chairman_config.node_name).models)

(***************************************************************************)
(* run_code_council under a scheduler that resumes it whenever the         *)
(* requests it awaits have returned or failed.  The reviewers' replies     *)
(* include a review whose score is a numeral too long for int().           *)
(***************************************************************************)
\* a review of A whose score has more digits than int() converts
ReviewOversized ==
    << [k |-> "hdr", l |-> "A"], [k |-> "score", n |-> 0, digits |-> MAX_STR_DIGITS + 1] >>

OversizedReplies == ReviewReplies \cup {Reply(ReviewOversized)}

\* parse_structured_review raises inside review_code_structured's loop
ParseRaises(rv) ==
    \E i \in 1..Len(rv.reviews) : rv.reviews[i].parsed_review = ValueError

\* a review pass in which the parsing of a reply raises: the exception leaves
\* review_code_structured and run_code_council
ReviewRaises ==
    /\ Running
    /\ pc \in {"GENERATED", "REFINED"}
    /\ \E replies \in [1..Len(get_all_council_models) -> OversizedReplies] :
         /\ ParseRaises(review_code_structured(current_submissions,
                            query_models_parallel(get_all_council_models, replies)))
         /\ sent' = sent \cup FanOutRequests("review", get_all_council_models, replies)
    /\ pc' = "RAISED"
    /\ trace' = Append(trace, "review")
    /\ UNCHANGED <<nodes, node_health, clientvars, max_iterations, iteration_num,
                   current_submissions, reviews, refined_submissions, iterations,
                   tests, final_result, result, conversation, http, messages>>

LiveClusters ==
    { [nodes |-> TwoTags, node_health |-> << >>],
      [nodes |-> NoneEnabled, node_health |-> << >>] }

InitLive == InitWith(LiveClusters) /\ conversation = "code"

NextLive ==
    \/ Generate
    \/ Review
    \/ ReviewRaises
    \/ Refine
    \/ GenerateTests
    \/ Synthesize
    \/ Return

SpecLive == InitLive /\ [][NextLive]_vars /\ WF_vars(NextLive)

\* C40: every run of run_code_council, its requests all returning or
\* failing, reaches DONE or the all-failed result.
C40_RunReachesResult ==
    (pc = "INIT") ~> (pc \in {"DONE", "ALL_FAILED"})

\* the part of C40 that holds: every run comes to an end, with a result or
\* with the exception a review pass raised
C40_RunEnds ==
    (pc = "INIT") ~> (pc \in {"DONE", "ALL_FAILED", "RAISED"})
====
